---------------------------- MODULE Spec2Model ----------------------------
(***************************************************************************)
(* CoolerControl daemon: the main loop (main_loop.rs), the status preload  *)
(* and snapshot of the repositories (cpu_repo.rs) and the shutdown path of *)
(* the alert controller (alerts.rs), as a state machine.                   *)
(*                                                                         *)
(* Time is counted in milliseconds.  The awaited stage calls of a tick     *)
(* (update_statuses, process_scheduled_speeds, broadcast_status, ...) are  *)
(* steps that take no time; time passes only while the main loop sits in   *)
(* one of its timers (the interval tick, the 400 ms select, the wake       *)
(* pause), and it jumps from one timer deadline to the next.  Spawned      *)
(* tasks (preloads, LCD updates, the alert save) finish at any moment.     *)
(*                                                                         *)
(* The observation variables record what a run did (the stages of a tick,  *)
(* what a snapshot published, ...).  They never decide a step.  A run      *)
(* records the observations of one aspect only, the one `watch` names.     *)
(***************************************************************************)
EXTENDS Integers, Sequences, FiniteSets, TLC

(***************************************************************************)
(* Program constants (main_loop.rs:36-39).                                 *)
(***************************************************************************)
LOOP_TICK_DURATION_MS == 1000
SNAPSHOT_WAIT_MS == 400
WAKE_PAUSE_MINIMUM_S == 1
LCD_TIMEOUT_S == 2

(***************************************************************************)
(* Bounds of the model.                                                    *)
(***************************************************************************)
\* number of repositories; the last one is the CpuRepo
NumRepos == 2
\* readings a preload can fetch: 0..MaxReading
MaxReading == 1
\* preload tasks of one repository that may be outstanding at once
MaxOutstanding == 2
\* startup_delay values (seconds) the settings may hold: 0..MaxStartupDelay
MaxStartupDelay == 2
\* ticks the interval may be behind when the system is suspended again
MaxBehindTicks == 0

Repos == 1..NumRepos
\* the CpuRepo is the last of the repositories the loops go through
CpuRepoId == NumRepos
Readings == 0..MaxReading
StartupDelays == 0..MaxStartupDelay

Max(a, b) == IF a >= b THEN a ELSE b
SetMin(S) == CHOOSE x \in S : \A y \in S : x <= y
MsOfSecs(s) == s * 1000

VARIABLES
    \* ---- main loop (main_loop.rs: run) ----
    pc,               \* position of the main loop task
    run_lcd_update,   \* toggle of the LCD update (main_loop.rs:57)
    run_token,        \* TRUE when the run token is cancelled
    snapshot_timeout_token, \* TRUE when this tick's token is cancelled
    snapIdx,          \* repository the snapshot loop is at
    \* ---- sleep listener flags ----
    preparing_to_sleep,
    resuming,
    \* ---- timers ----
    tickIn,           \* ms until the interval's next deadline (<= 0: due)
    sinceFire,        \* ms since this tick's preloads were fired (select)
    pauseFor,         \* length of the wake pause in ms
    pauseElapsed,     \* ms of the wake pause already waited
    \* ---- spawned tasks ----
    curPre,           \* curPre[r]: this tick's preload of r is running
    oldPre,           \* oldPre[r]: running preloads of r of earlier ticks
    lcdTasks,         \* ages (ms) of the running LCD update tasks
    alertSave,        \* the alert controller's shutdown task
    \* ---- the CpuRepo (cpu_repo.rs) ----
    preloaded_statuses, \* the preloaded reading of the CPU device
    status,           \* the reading of the CPU device's Status
    \* ---- observation of the run ----
    watch,            \* the aspect this run records
    tickSuspended,    \* the flags read at the start of the tick
    tickKind,         \* "none" | "normal" | "idle" | "wake"
    stages,           \* stages run so far in the current tick
    snapTried,        \* repositories update_statuses was called on
    snapErr,          \* repositories whose update_statuses failed
    prevErr,          \* snapErr of the previous normal tick
    afterErr,         \* stages run in this tick after a failed update_statuses
    lastLoaded,       \* reading of the last preload that finished
    latePending,      \* a late reading is stored and not yet published
    pubLate,          \* the snapshot just taken published a late reading
    wakeTrace,        \* steps of the wake_from_sleep in progress or last run
    wakeDelay,        \* <<startup_delay>> read by wake_from_sleep
    wakeApply,        \* <<apply_on_boot>> read by wake_from_sleep
    wakePaused,       \* ms the pause of wake_from_sleep lasted
    wakeState,        \* "none" | "running" | "done" | "failed"
    afterWake,        \* a wake finished and no signal arrived since
    wakeThenTick,     \* afterWake as the current tick began
    lcdLog,           \* <<what the last fire_lcd_update did>>
    nsTickEven,       \* the current normal tick has an even number
    idleSince         \* a tick ran no stages since the last fire_lcd_update

loopVars == <<pc, run_lcd_update, run_token, snapshot_timeout_token, snapIdx>>
sleepVars == <<preparing_to_sleep, resuming>>
timeVars == <<tickIn, sinceFire, pauseFor, pauseElapsed>>
taskVars == <<curPre, oldPre, lcdTasks, alertSave>>
repoVars == <<preloaded_statuses, status>>
tickObs == <<tickSuspended, tickKind, stages>>
errObs == <<snapTried, snapErr, prevErr, afterErr>>
repoObs == <<lastLoaded, latePending, pubLate>>
wakeObs == <<wakeTrace, wakeDelay, wakeApply, wakePaused, wakeState,
             afterWake, wakeThenTick>>
lcdObs == <<lcdLog, nsTickEven, idleSince>>
obsVars == <<watch, tickObs, errObs, repoObs, wakeObs, lcdObs>>

(***************************************************************************)
(* The AlertController (alerts.rs).                                        *)
(***************************************************************************)
VARIABLES
    alerts,           \* the alerts in the order of the LinkedHashMap
    alert_handle,     \* alert_handle is Some(..)
    logs,             \* the VecDeque of AlertLog entries, oldest first
    \* ---- observation of the alert controller ----
    seen,             \* seen[uid]: what the last process_alerts found for uid
    broadcast,        \* the entries the last process_alerts broadcast
    lastEntry,        \* lastEntry[uid]: state of uid's last entry, or "none"
    logged            \* entries logged since the controller was initialised

alertVars == <<alerts, alert_handle, logs>>
alertObs == <<seen, broadcast, lastEntry, logged>>

(***************************************************************************)
(* The ModeController (modes.rs) and the device settings of the Config     *)
(* (config.rs).                                                            *)
(***************************************************************************)
VARIABLES
    modes,            \* Mode UID -> all_device_settings of the Mode
    mode_order,       \* the Vec of Mode UIDs
    active_modes,     \* the Mode UIDs the last determination found active
    device_settings,  \* device UID -> channel -> saved setting (Config)
    \* ---- observation of the mode controller ----
    lastCall,         \* the call that ran last, its result and operations
    repeat            \* it repeated a successful activate_mode of the Mode

modeVars == <<modes, mode_order, active_modes, device_settings>>
modeObs == <<lastCall, repeat>>
modeAll == <<modeVars, modeObs>>

VARIABLES
    document,         \* the part of the configuration document a run is about
    loaded            \* what the last call on the document returned

cfgVars == <<document, loaded>>

VARIABLES
    clock,            \* SystemTime::now() in ms since the epoch at the call
    wait_duration     \* <<the wait of align_loop_timing_with_clock>>

alignVars == <<clock, wait_duration>>

VARIABLES
    cpu_devices,             \* CpuRepo.devices: the devices, each with its status
    cpu_preloaded_statuses,  \* CpuRepo.preloaded_statuses: type_index -> reading
    cpu_call,                \* the last call on the CpuRepo and what it did
    gpu_devices,             \* GpuRepo.devices: id -> device
    gpu_type_count,          \* GpuRepo.gpu_type_count: GpuType -> number of GPUs
    has_multiple_gpus,       \* GpuRepo.has_multiple_gpus
    status_map,              \* the StatusMap handed to get_channel_statuses
    channel_statuses         \* <<the Vec<ChannelStatus> it returned>>

cpuVars == <<cpu_devices, cpu_preloaded_statuses, cpu_call>>
gpuVars == <<gpu_devices, gpu_type_count, has_multiple_gpus>>
statusVars == <<status_map, channel_statuses>>
hwVars == <<cpuVars, gpuVars, statusVars>>
ctlVars == <<alertVars, alertObs, modeAll, cfgVars, alignVars, hwVars>>

vars == <<loopVars, sleepVars, timeVars, taskVars, repoVars, obsVars,
          ctlVars>>

\* the value an observation variable takes: `new` in the runs that watch
\* aspect w, its old value in the others
Obs(w, new, old) == IF watch = w THEN new ELSE old

\* the readings the preloads of a run fetch
ReadingsSeen == IF watch = "repo" THEN Readings ELSE {0}

Ended == {"exited", "failed", "returned_ok", "returned_err"}
StagePcs == {"select", "snapshots", "lcd", "speeds", "broadcast"}


(***************************************************************************)
(* Init: run() has created the sleep listener, aligned with the clock and  *)
(* created the interval, whose first tick is due at once.  The CpuRepo     *)
(* holds the status its initialize_devices preloaded (cpu_repo.rs:169-176).*)
(***************************************************************************)
MainInit(w) ==
    /\ watch = w
    /\ pc = "tick_wait"
    /\ run_lcd_update = FALSE
    /\ run_token = FALSE
    /\ snapshot_timeout_token = TRUE
    /\ snapIdx = 1
    /\ preparing_to_sleep = FALSE
    /\ resuming = FALSE
    /\ tickIn = 0
    /\ sinceFire = 0
    /\ pauseFor = 0
    /\ pauseElapsed = 0
    /\ curPre = [r \in Repos |-> FALSE]
    /\ oldPre = [r \in Repos |-> 0]
    /\ lcdTasks = <<>>
    /\ alertSave = "watching"
    /\ \E v \in ReadingsSeen :
        /\ preloaded_statuses = v
        /\ status = v
        /\ lastLoaded = v
    /\ tickSuspended = FALSE
    /\ tickKind = "none"
    /\ stages = <<>>
    /\ snapTried = {}
    /\ snapErr = {}
    /\ prevErr = {}
    /\ afterErr = {}
    /\ latePending = FALSE
    /\ pubLate = FALSE
    /\ wakeTrace = <<>>
    /\ wakeDelay = <<>>
    /\ wakeApply = <<>>
    /\ wakePaused = 0
    /\ wakeState = "none"
    /\ afterWake = FALSE
    /\ wakeThenTick = "none"
    /\ lcdLog = <<>>
    /\ nsTickEven = TRUE
    /\ idleSince = FALSE

\* AlertController::init (alerts.rs:94-104) before the alert configuration
\* file is read: no alerts, no handle, no log entries
AlertIdle ==
    /\ alerts = <<>>
    /\ alert_handle = FALSE
    /\ logs = <<>>
    /\ seen = <<>>
    /\ broadcast = <<>>
    /\ lastEntry = <<>>
    /\ logged = 0

\* ModeController::init (modes.rs:52-68) before the Mode configuration
\* file is read: no Modes
ModeIdle ==
    /\ modes = <<>>
    /\ mode_order = <<>>
    /\ active_modes = {}
    /\ device_settings = <<>>
    /\ lastCall = <<>>
    /\ repeat = FALSE

CfgIdle ==
    /\ document = <<>>
    /\ loaded = <<>>

AlignIdle ==
    /\ clock = 0
    /\ wait_duration = <<>>

CpuIdle ==
    /\ cpu_devices = <<>>
    /\ cpu_preloaded_statuses = <<>>
    /\ cpu_call = <<>>

GpuIdle ==
    /\ gpu_devices = <<>>
    /\ gpu_type_count = <<>>
    /\ has_multiple_gpus = FALSE

StatusIdle ==
    /\ status_map = <<>>
    /\ channel_statuses = <<>>

HwIdle == CpuIdle /\ GpuIdle /\ StatusIdle

InitWatching(w) ==
    MainInit(w) /\ AlertIdle /\ ModeIdle /\ CfgIdle /\ AlignIdle /\ HwIdle

Init == InitWatching("tick")

(***************************************************************************)
(* Helpers of the main loop.                                               *)
(***************************************************************************)
\* while run_token.is_cancelled().not()  (main_loop.rs:65): where the loop
\* goes when an iteration has ended
LoopHeadIgnoringToken == "tick_wait"
LoopHead == IF run_token THEN "exited" ELSE "tick_wait"

\* sleep_listener.is_not_preparing_to_sleep()  (main_loop.rs:67)
AlwaysNotPreparing == TRUE
NotPreparingToSleep == ~preparing_to_sleep

\* loop_interval.tick() is ready  (main_loop.rs:66)
TickDue == tickIn <= 0

\* the sleep(400 ms) branch of the select is ready  (main_loop.rs:73)
SnapshotTimedOutLate == sinceFire >= LOOP_TICK_DURATION_MS
SnapshotTimedOut == sinceFire >= SNAPSHOT_WAIT_MS

\* the order of the calls of fire_snapshots_and_processes (main_loop.rs:147-154)
NextStageSpeedsFirst(p) ==
    CASE p = "snapshots" -> "speeds"
      [] p = "speeds" -> "lcd"
      [] p = "lcd" -> "broadcast"
      [] OTHER -> LoopHead
NextStage(p) ==
    CASE p = "snapshots" -> "lcd"
      [] p = "lcd" -> "speeds"
      [] p = "speeds" -> "broadcast"
      [] OTHER -> LoopHead

\* the for loop over the repositories (main_loop.rs:147-151): an error is
\* logged and the loop goes on
AfterUpdateStatusesAbort(r, ok) ==
    IF ok /\ r < NumRepos THEN "snapshots" ELSE NextStage("snapshots")
AfterUpdateStatuses(r, ok) ==
    IF r < NumRepos THEN "snapshots" ELSE NextStage("snapshots")

\* run_lcd_update = !run_lcd_update  (main_loop.rs:77)
ToggleLcdStuck(b) == b
ToggleLcd(b) == ~b

\* startup_delay.max(Duration::from_secs(WAKE_PAUSE_MINIMUM_S)), in ms
\* (main_loop.rs:205-210)
WakePauseNoMinimum(sd) == MsOfSecs(sd)
WakePause(sd) == MsOfSecs(Max(sd, WAKE_PAUSE_MINIMUM_S))

PauseOver == pauseElapsed >= pauseFor

\* timeout(Duration::from_secs(LCD_TIMEOUT_S), ...) has expired for a task
\* of this age  (main_loop.rs:179-184)
LcdExpiredLate(age) == age >= MsOfSecs(LCD_TIMEOUT_S + 1)
LcdExpired(age) == age >= MsOfSecs(LCD_TIMEOUT_S)

\* number of running preload tasks of repository r
Outstanding(r) == oldPre[r] + (IF curPre[r] THEN 1 ELSE 0)

\* preloaded_statuses after a preload of the CpuRepo has stored reading v
\* (cpu_repo.rs:224); late: the 400 ms timer of the preload's tick has fired
PreloadInsertDropLate(v, late) == IF late THEN preloaded_statuses ELSE v
PreloadInsert(v, late) == v

RemoveAt(s, i) == [j \in 1..(Len(s) - 1) |-> IF j < i THEN s[j] ELSE s[j + 1]]

(***************************************************************************)
(* The main loop: one iteration of `while` in run()  (main_loop.rs:65-87). *)
(***************************************************************************)
\* what every tick does as loop_interval.tick() returns
BeginTick(kind) ==
    /\ pc = "tick_wait"
    /\ TickDue
    /\ tickIn' = tickIn + LOOP_TICK_DURATION_MS
    /\ tickSuspended' = Obs("tick", preparing_to_sleep /\ ~resuming,
                            tickSuspended)
    /\ tickKind' = Obs("tick", kind, tickKind)
    /\ wakeThenTick' = Obs("wake", IF afterWake THEN kind ELSE "none",
                           wakeThenTick)
    /\ afterWake' = FALSE

\* a tick that does not run wake_from_sleep forgets the last wake
ForgetWake ==
    /\ wakeTrace' = <<>>
    /\ wakeDelay' = <<>>
    /\ wakeApply' = <<>>
    /\ wakePaused' = 0
    /\ wakeState' = "none"

\* main_loop.rs:67-70: not preparing to sleep: a new token, fire_preloads,
\* and the select begins
TickNormal ==
    /\ BeginTick("normal")
    /\ NotPreparingToSleep
    /\ \A r \in Repos : Outstanding(r) < MaxOutstanding
    /\ snapshot_timeout_token' = FALSE
    /\ oldPre' = [r \in Repos |-> Outstanding(r)]
    /\ curPre' = [r \in Repos |-> TRUE]
    /\ sinceFire' = 0
    /\ pc' = "select"
    /\ stages' = Obs("tick", <<"preload">>, stages)
    /\ snapTried' = {}
    /\ prevErr' = snapErr
    /\ snapErr' = {}
    /\ afterErr' = {}
    /\ nsTickEven' = Obs("lcd", ~nsTickEven, nsTickEven)
    /\ ForgetWake
    /\ UNCHANGED <<run_lcd_update, run_token, snapIdx, sleepVars, pauseFor,
                   pauseElapsed, lcdTasks, alertSave, repoVars, watch, ctlVars,
                   repoObs, lcdLog, idleSince>>

\* main_loop.rs:67,78: preparing to sleep and not resuming: nothing is done
TickIdle ==
    /\ BeginTick("idle")
    /\ ~NotPreparingToSleep
    /\ ~resuming
    /\ pc' = LoopHead
    /\ stages' = <<>>
    /\ idleSince' = Obs("lcd", TRUE, idleSince)
    /\ ForgetWake
    /\ UNCHANGED <<run_lcd_update, run_token, snapshot_timeout_token, snapIdx,
                   sleepVars, sinceFire, pauseFor, pauseElapsed, taskVars,
                   repoVars, watch, ctlVars, errObs, repoObs, lcdLog, nsTickEven>>

\* main_loop.rs:78-85, 205-211: preparing to sleep and resuming:
\* wake_from_sleep reads the settings and sleeps; a failing get_settings
\* ends run() with the error
TickWake ==
    /\ BeginTick("wake")
    /\ ~NotPreparingToSleep
    /\ resuming
    /\ stages' = <<>>
    /\ \E ok \in BOOLEAN, sd \in StartupDelays :
        IF ok
        THEN /\ pc' = "wake_pause"
             /\ pauseFor' = WakePause(sd)
             /\ wakeDelay' = Obs("wake", <<sd>>, wakeDelay)
             /\ wakeState' = Obs("wake", "running", wakeState)
        ELSE /\ pc' = "failed"
             /\ pauseFor' = 0
             /\ wakeDelay' = <<>>
             /\ wakeState' = Obs("wake", "failed", wakeState)
    /\ pauseElapsed' = 0
    /\ wakeTrace' = <<>>
    /\ wakeApply' = <<>>
    /\ wakePaused' = 0
    /\ idleSince' = Obs("lcd", TRUE, idleSince)
    /\ UNCHANGED <<run_lcd_update, run_token, snapshot_timeout_token, snapIdx,
                   sleepVars, sinceFire, taskVars, repoVars, watch, ctlVars, errObs,
                   repoObs, lcdLog, nsTickEven>>

\* main_loop.rs:70-76: one branch of the select is ready and
\* fire_snapshots_and_processes is entered
SelectDone ==
    /\ pc = "select"
    /\ snapshot_timeout_token \/ SnapshotTimedOut
    /\ pc' = "snapshots"
    /\ snapIdx' = 1
    /\ sinceFire' = 0
    /\ stages' = Obs("tick", Append(stages, "wait"), stages)
    /\ UNCHANGED <<run_lcd_update, run_token, snapshot_timeout_token,
                   sleepVars, tickIn, pauseFor, pauseElapsed, taskVars,
                   repoVars, watch, ctlVars,
                   tickSuspended, tickKind, errObs, repoObs, wakeObs, lcdObs>>

\* main_loop.rs:147-151 with cpu_repo.rs:235-259: update_statuses of the
\* repository the loop is at.  The CpuRepo publishes its preloaded status
\* and always returns Ok; another repository may return an error.
UpdateStatuses ==
    /\ pc = "snapshots"
    /\ LET r == snapIdx IN
       \E ok \in (IF r = CpuRepoId THEN {TRUE} ELSE BOOLEAN) :
        /\ IF r = CpuRepoId
           THEN /\ status' = preloaded_statuses
                /\ pubLate' = Obs("repo", latePending, pubLate)
                /\ latePending' = FALSE
           ELSE UNCHANGED <<status, latePending, pubLate>>
        /\ snapTried' = Obs("err", snapTried \cup {r}, snapTried)
        /\ snapErr' = Obs("err", IF ok THEN snapErr ELSE snapErr \cup {r},
                          snapErr)
        /\ pc' = AfterUpdateStatuses(r, ok)
        /\ snapIdx' = IF pc' = "snapshots" THEN r + 1 ELSE 1
    /\ stages' = Obs("tick", Append(stages, "snapshot"), stages)
    /\ UNCHANGED <<run_lcd_update, run_token, snapshot_timeout_token,
                   sleepVars, timeVars, taskVars, preloaded_statuses, watch, ctlVars,
                   tickSuspended, tickKind, prevErr, afterErr,
                   lastLoaded, wakeObs, lcdObs>>

\* main_loop.rs:152, 163-189: fire_lcd_update spawns the LCD update task
\* when the toggle is set and a scheduled LCD setting exists (sched)
FireLcdUpdate ==
    /\ pc = "lcd"
    /\ \E sched \in BOOLEAN :
        LET fire == run_lcd_update /\ sched IN
        /\ lcdTasks' = IF fire THEN Append(lcdTasks, 0) ELSE lcdTasks
        /\ stages' = Obs("tick", IF fire THEN Append(stages, "lcd")
                                 ELSE stages, stages)
        /\ lcdLog' = Obs("lcd",
                         <<[fired |-> fire, sched |-> sched,
                            afterIdle |-> idleSince]>>,
                         lcdLog)
    /\ idleSince' = FALSE
    /\ pubLate' = FALSE
    /\ pc' = NextStage("lcd")
    /\ UNCHANGED <<run_lcd_update, run_token, snapshot_timeout_token, snapIdx,
                   sleepVars, timeVars, curPre, oldPre, alertSave, repoVars,
                   watch, ctlVars, tickSuspended, tickKind, errObs, lastLoaded,
                   latePending, wakeObs, nsTickEven>>

\* main_loop.rs:153: settings_controller.process_scheduled_speeds().await
ProcessScheduledSpeeds ==
    /\ pc = "speeds"
    /\ pc' = NextStage("speeds")
    /\ stages' = Obs("tick", Append(stages, "speeds"), stages)
    /\ afterErr' = Obs("err", IF snapErr # {} THEN afterErr \cup {"speeds"}
                              ELSE afterErr, afterErr)
    /\ UNCHANGED <<run_lcd_update, run_token, snapshot_timeout_token, snapIdx,
                   sleepVars, timeVars, taskVars, repoVars, watch, ctlVars,
                   tickSuspended, tickKind, snapTried, snapErr, prevErr,
                   repoObs, wakeObs, lcdObs>>

\* main_loop.rs:154, 77, 65: broadcast_status, then the toggle and the
\* check of the run token
BroadcastStatus ==
    /\ pc = "broadcast"
    /\ pc' = NextStage("broadcast")
    /\ stages' = Obs("tick", Append(stages, "broadcast"), stages)
    /\ run_lcd_update' = ToggleLcd(run_lcd_update)
    /\ afterErr' = Obs("err", IF snapErr # {} THEN afterErr \cup {"broadcast"}
                              ELSE afterErr, afterErr)
    /\ UNCHANGED <<run_token, snapshot_timeout_token, snapIdx,
                   sleepVars, timeVars, taskVars, repoVars, watch, ctlVars,
                   tickSuspended, tickKind, snapTried, snapErr, prevErr,
                   repoObs, wakeObs, lcdObs>>

(***************************************************************************)
(* wake_from_sleep  (main_loop.rs:199-221).                                *)
(***************************************************************************)
\* main_loop.rs:217-220: the status histories, then the two flags, Ok(())
FinishWake(trace) ==
    /\ wakeTrace' = Obs("wake",
                        trace \o <<"reinitialize_all_status_histories",
                                   "resuming_false",
                                   "preparing_to_sleep_false">>,
                        wakeTrace)
    /\ resuming' = FALSE
    /\ preparing_to_sleep' = FALSE
    /\ wakeState' = Obs("wake", "done", wakeState)
    /\ afterWake' = Obs("wake", TRUE, afterWake)
    /\ pc' = LoopHead

\* main_loop.rs:205-212: the sleep is over and the settings are read again
WakePauseDone ==
    /\ pc = "wake_pause"
    /\ PauseOver
    /\ wakePaused' = Obs("wake", pauseElapsed, wakePaused)
    /\ pauseFor' = 0
    /\ pauseElapsed' = 0
    /\ \E ok \in BOOLEAN, apply_on_boot \in BOOLEAN :
        IF ~ok
        THEN /\ pc' = "failed"
             /\ wakeState' = Obs("wake", "failed", wakeState)
             /\ wakeTrace' = Obs("wake", Append(wakeTrace, "pause"), wakeTrace)
             /\ UNCHANGED <<wakeApply, sleepVars, afterWake>>
        ELSE /\ wakeApply' = Obs("wake", <<apply_on_boot>>, wakeApply)
             /\ IF apply_on_boot
                THEN /\ pc' = "wake_reinit"
                     /\ wakeTrace' = Obs("wake", Append(wakeTrace, "pause"),
                                         wakeTrace)
                     /\ UNCHANGED <<wakeState, sleepVars, afterWake>>
                ELSE FinishWake(Append(wakeTrace, "pause"))
    /\ UNCHANGED <<run_lcd_update, run_token, snapshot_timeout_token, snapIdx,
                   tickIn, sinceFire, taskVars, repoVars, watch, ctlVars, tickObs,
                   errObs, repoObs, wakeDelay, wakeThenTick, lcdObs>>

\* main_loop.rs:214: settings_controller.reinitialize_devices().await
ReinitializeDevices ==
    /\ pc = "wake_reinit"
    /\ pc' = "wake_apply"
    /\ wakeTrace' = Obs("wake", Append(wakeTrace, "reinitialize_devices"),
                        wakeTrace)
    /\ UNCHANGED <<run_lcd_update, run_token, snapshot_timeout_token, snapIdx,
                   sleepVars, timeVars, taskVars, repoVars, watch, ctlVars, tickObs,
                   errObs, repoObs, wakeDelay, wakeApply, wakePaused, wakeState,
                   afterWake, wakeThenTick, lcdObs>>

\* main_loop.rs:215-220 with modes.rs:84-112: apply_all_saved_device_settings
\* logs its errors and returns; the rest of wake_from_sleep follows
ApplyAllSavedDeviceSettings ==
    /\ pc = "wake_apply"
    /\ FinishWake(Append(wakeTrace, "apply_all_saved_device_settings"))
    /\ UNCHANGED <<run_lcd_update, run_token, snapshot_timeout_token, snapIdx,
                   timeVars, taskVars, repoVars, watch, ctlVars, tickObs, errObs, repoObs,
                   wakeDelay, wakeApply, wakePaused, wakeThenTick, lcdObs>>

\* main_loop.rs:58-90: the scope of run() returns the body's result once the
\* body has ended and every task spawned on the scope has completed
ReturnFromRun ==
    /\ pc \in {"exited", "failed"}
    /\ \A r \in Repos : Outstanding(r) = 0
    /\ snapshot_timeout_token
    /\ lcdTasks = <<>>
    /\ pc' = IF pc = "exited" THEN "returned_ok" ELSE "returned_err"
    /\ UNCHANGED <<run_lcd_update, run_token, snapshot_timeout_token, snapIdx,
                   sleepVars, timeVars, taskVars, repoVars, obsVars, ctlVars>>

(***************************************************************************)
(* The tasks spawned on the scope.                                         *)
(***************************************************************************)
\* main_loop.rs:124-126 with cpu_repo.rs:212-233: the preload task of
\* repository r ends; cur: it is the task of the current tick.  The CpuRepo
\* stores the reading v unless request_status failed (ok = FALSE).
PreloadFinish(r, cur, ok, v) ==
    /\ IF cur THEN curPre[r] ELSE oldPre[r] > 0
    /\ curPre' = IF cur THEN [curPre EXCEPT ![r] = FALSE] ELSE curPre
    /\ oldPre' = IF cur THEN oldPre ELSE [oldPre EXCEPT ![r] = @ - 1]
    /\ LET late == ~cur \/ pc # "select" IN
       IF r = CpuRepoId /\ ok
       THEN /\ preloaded_statuses' = PreloadInsert(v, late)
            /\ lastLoaded' = Obs("repo", v, lastLoaded)
            /\ latePending' =
                 Obs("repo", late \/ (latePending /\ v = preloaded_statuses),
                     latePending)
       ELSE UNCHANGED <<preloaded_statuses, lastLoaded, latePending>>
    /\ UNCHANGED <<loopVars, sleepVars, timeVars, lcdTasks, alertSave, status,
                   watch, ctlVars, tickObs, errObs, pubLate, wakeObs, lcdObs>>

\* main_loop.rs:121-130: the preload scope of the current tick has joined
\* all its preloads and cancels the snapshot timeout token
PreloadsJoined ==
    /\ ~snapshot_timeout_token
    /\ \A r \in Repos : ~curPre[r]
    /\ snapshot_timeout_token' = TRUE
    /\ UNCHANGED <<pc, run_lcd_update, run_token, snapIdx, sleepVars,
                   timeVars, taskVars, repoVars, watch, ctlVars, tickSuspended,
                   tickKind, stages, errObs,
                   repoObs, wakeObs, lcdObs>>

\* main_loop.rs:179-184: update_lcd ends before the timeout
LcdFinish(i) ==
    /\ i \in 1..Len(lcdTasks)
    /\ ~LcdExpired(lcdTasks[i])
    /\ lcdTasks' = RemoveAt(lcdTasks, i)
    /\ UNCHANGED <<loopVars, sleepVars, timeVars, curPre, oldPre, alertSave,
                   repoVars, obsVars, ctlVars>>

\* main_loop.rs:179-187: the timeout ends the LCD task
LcdTimeout(i) ==
    /\ i \in 1..Len(lcdTasks)
    /\ LcdExpired(lcdTasks[i])
    /\ lcdTasks' = RemoveAt(lcdTasks, i)
    /\ UNCHANGED <<loopVars, sleepVars, timeVars, curPre, oldPre, alertSave,
                   repoVars, obsVars, ctlVars>>

\* alerts.rs:107-118, 172-182: the task watch_for_shutdown spawned sees the
\* cancelled token and runs save_alert_data_to_config, whose result it drops
WatchForShutdown ==
    /\ alertSave = "watching"
    /\ run_token
    /\ \E ok \in BOOLEAN :
        alertSave' = IF ok THEN "saved" ELSE "save_failed"
    /\ UNCHANGED <<loopVars, sleepVars, timeVars, curPre, oldPre, lcdTasks,
                   repoVars, obsVars, ctlVars>>

(***************************************************************************)
(* The environment: the sleep listener's signals and the termination.      *)
(***************************************************************************)
\* PrepareForSleep(true): the listener sets preparing_to_sleep.  The system
\* is not suspended again while the interval is more than MaxBehindTicks
\* ticks behind, which keeps the number of missed ticks finite.
SuspendSignal ==
    /\ pc \notin Ended
    /\ ~run_token
    /\ ~preparing_to_sleep
    /\ tickIn >= 0 - MaxBehindTicks * LOOP_TICK_DURATION_MS
    /\ preparing_to_sleep' = TRUE
    /\ afterWake' = FALSE
    /\ UNCHANGED <<loopVars, resuming, timeVars, taskVars, repoVars, watch, ctlVars,
                   tickObs, errObs, repoObs, wakeTrace, wakeDelay, wakeApply,
                   wakePaused, wakeState, wakeThenTick, lcdObs>>

\* PrepareForSleep(false): the listener sets resuming
ResumeSignal ==
    /\ pc \notin Ended
    /\ ~run_token
    /\ preparing_to_sleep
    /\ ~resuming
    /\ resuming' = TRUE
    /\ afterWake' = FALSE
    /\ UNCHANGED <<loopVars, preparing_to_sleep, timeVars, taskVars, repoVars,
                   watch, ctlVars, tickObs, errObs, repoObs, wakeTrace, wakeDelay, wakeApply,
                   wakePaused, wakeState, wakeThenTick, lcdObs>>

\* the termination signal cancels the run token
CancelRunToken ==
    /\ ~run_token
    /\ pc \notin {"returned_ok", "returned_err"}
    /\ run_token' = TRUE
    /\ UNCHANGED <<pc, run_lcd_update, snapshot_timeout_token, snapIdx,
                   sleepVars, timeVars, taskVars, repoVars, obsVars, ctlVars>>

(***************************************************************************)
(* Time.  A step that is ready is taken before time passes; time then      *)
(* passes up to the nearest deadline.                                      *)
(***************************************************************************)
MainReady ==
    \/ pc \in {"snapshots", "lcd", "speeds", "broadcast", "wake_reinit",
               "wake_apply"}
    \/ pc = "tick_wait" /\ TickDue
    \/ pc = "select" /\ (snapshot_timeout_token \/ SnapshotTimedOut)
    \/ pc = "wake_pause" /\ PauseOver

JoinReady == ~snapshot_timeout_token /\ \A r \in Repos : ~curPre[r]

Urgent ==
    \/ MainReady
    \/ JoinReady
    \/ \E i \in 1..Len(lcdTasks) : LcdExpired(lcdTasks[i])

Deadlines ==
    {d \in {tickIn} : pc \notin Ended}
      \cup {d \in {SNAPSHOT_WAIT_MS - sinceFire} : pc = "select"}
      \cup {d \in {pauseFor - pauseElapsed} : pc = "wake_pause"}
      \cup {MsOfSecs(LCD_TIMEOUT_S) - lcdTasks[i] : i \in 1..Len(lcdTasks)}

FutureDeadlines == {d \in Deadlines : d > 0}

Advance ==
    /\ ~Urgent
    /\ FutureDeadlines # {}
    /\ LET d == SetMin(FutureDeadlines) IN
        /\ tickIn' = IF pc \in Ended THEN tickIn ELSE tickIn - d
        /\ sinceFire' = IF pc = "select" THEN sinceFire + d ELSE sinceFire
        /\ pauseElapsed' = IF pc = "wake_pause" THEN pauseElapsed + d
                           ELSE pauseElapsed
        /\ lcdTasks' = [i \in 1..Len(lcdTasks) |-> lcdTasks[i] + d]
    /\ UNCHANGED <<loopVars, sleepVars, pauseFor, curPre, oldPre, alertSave,
                   repoVars, obsVars, ctlVars>>

MainLoop ==
    \/ TickNormal
    \/ TickIdle
    \/ TickWake
    \/ SelectDone
    \/ UpdateStatuses
    \/ FireLcdUpdate
    \/ ProcessScheduledSpeeds
    \/ BroadcastStatus
    \/ WakePauseDone
    \/ ReinitializeDevices
    \/ ApplyAllSavedDeviceSettings
    \/ ReturnFromRun

Tasks ==
    \/ \E r \in Repos, cur \in BOOLEAN, ok \in BOOLEAN, v \in ReadingsSeen :
         PreloadFinish(r, cur, ok, v)
    \/ PreloadsJoined
    \/ \E i \in 1..Len(lcdTasks) : LcdFinish(i)
    \/ \E i \in 1..Len(lcdTasks) : LcdTimeout(i)
    \/ WatchForShutdown

Signals == SuspendSignal \/ ResumeSignal \/ CancelRunToken

Next == MainLoop \/ Tasks \/ Signals \/ Advance

Spec == Init /\ [][Next]_vars
SpecRepo == InitWatching("repo") /\ [][Next]_vars
SpecWake == InitWatching("wake") /\ [][Next]_vars
SpecLcd == InitWatching("lcd") /\ [][Next]_vars
SpecErr == InitWatching("err") /\ [][Next]_vars

\* The tokio runtime polls every task that is ready, the timers fire, and a
\* preload or an LCD update that was started comes to an end.
FairSpec ==
    Init /\ [][Next]_vars /\ WF_vars(MainLoop) /\ WF_vars(Tasks)
         /\ WF_vars(Advance)

(***************************************************************************)
(* Properties of the main loop.                                            *)
(***************************************************************************)
IsPrefix(s, t) == Len(s) <= Len(t) /\ \A i \in 1..Len(s) : s[i] = t[i]
Snapshots == [i \in 1..NumRepos |-> "snapshot"]
Returned == {"returned_ok", "returned_err"}
TickOver == pc \in {"tick_wait", "exited", "returned_ok"}

\* the stages of a normal tick in the order of the calls in run() and
\* fire_snapshots_and_processes; lcd: the LCD update task was spawned
OrderInCode(lcd) ==
    <<"preload", "wait">> \o Snapshots
      \o (IF lcd THEN <<"lcd">> ELSE <<>>) \o <<"speeds", "broadcast">>

\* the order with process_scheduled_speeds before the LCD update and with an
\* alert stage before the broadcast
OrderWithAlerts(lcd) ==
    <<"preload", "wait">> \o Snapshots \o <<"speeds">>
      \o (IF lcd THEN <<"lcd">> ELSE <<>>) \o <<"alerts", "broadcast">>

THM_C2 ==
    /\ [](pc = "select" => sinceFire <= SNAPSHOT_WAIT_MS)
    /\ [][/\ (pc = "select" /\ pc' = "snapshots") =>
                (snapshot_timeout_token \/ sinceFire = SNAPSHOT_WAIT_MS)
          /\ (pc = "select" /\ sinceFire' > sinceFire) =>
                /\ \E r \in Repos : curPre[r]
                /\ ~snapshot_timeout_token
                /\ sinceFire' <= SNAPSHOT_WAIT_MS]_vars

\* the snapshot stage has begun on the timer with a preload still running
WIT_C2 ==
    /\ pc = "snapshots"
    /\ ~snapshot_timeout_token
    /\ \E r \in Repos : curPre[r]

\* the step that is update_statuses of the CpuRepo
CpuSnapshotStep ==
    /\ pc = "snapshots"
    /\ snapIdx = CpuRepoId
    /\ pc' # "snapshots"

\* C3 as stated: a late result stays the preloaded status until a snapshot
\* has published it.
CEX_C3 == [][latePending => preloaded_statuses' = preloaded_statuses]_vars

\* C3: a preload still running when the 400 ms timer fires is not cancelled
\* by the main loop going on; the snapshot of the tick that timed out
\* publishes the status preloaded earlier; and every snapshot publishes the
\* result of the preload that completed last, so a late result is published
\* by the first snapshot after its completion unless another preload of the
\* repository completed in between.
THM_C3 ==
    [][/\ (pc = "select" /\ pc' = "snapshots") =>
             (curPre' = curPre /\ oldPre' = oldPre)
       /\ CpuSnapshotStep =>
             /\ status' = lastLoaded
             /\ status' = preloaded_statuses
             /\ curPre' = curPre /\ oldPre' = oldPre]_vars

\* the snapshot of a tick that timed out has published the late result of
\* the tick before it, and this tick's preload is still running
WIT_C3 ==
    /\ pubLate
    /\ curPre[CpuRepoId]
    /\ oldPre[CpuRepoId] = 0
    /\ status = lastLoaded

\* C4: a tick that begins while the daemon is preparing to sleep and no
\* resume was signalled fires no preload, takes no snapshot, runs no
\* process_scheduled_speeds and fires no LCD update: it runs no stage and
\* leaves the tasks and the published status as they are.
THM_C4 ==
    /\ [](tickSuspended => (stages = <<>> /\ tickKind = "idle"
                            /\ pc \notin StagePcs))
    /\ [][(pc = "tick_wait" /\ pc' # pc /\ preparing_to_sleep /\ ~resuming) =>
             /\ pc' = LoopHead
             /\ curPre' = curPre /\ oldPre' = oldPre
             /\ lcdTasks' = lcdTasks
             /\ status' = status]_vars

WIT_C4 ==
    /\ tickSuspended
    /\ tickKind = "idle"
    /\ preparing_to_sleep
    /\ pc = "tick_wait"
    /\ tickIn = LOOP_TICK_DURATION_MS

\* the steps of wake_from_sleep in the order C5 gives
WakeOrder(apply_on_boot) ==
    <<"pause">>
      \o (IF apply_on_boot
          THEN <<"reinitialize_devices", "apply_all_saved_device_settings">>
          ELSE <<>>)
      \o <<"reinitialize_all_status_histories", "resuming_false",
           "preparing_to_sleep_false">>

\* C5: wake_from_sleep pauses for max(startup_delay, 1 s); then, only if
\* apply_on_boot, reinitialize_devices and apply_all_saved_device_settings;
\* then reinitialize_all_status_histories; then it clears the resuming and
\* the preparing-to-sleep flag, and the next tick runs the normal stages.
THM_C5 ==
    /\ wakeState = "done" =>
        /\ wakeTrace = WakeOrder(wakeApply[1])
        /\ wakePaused = (IF wakeDelay[1] > WAKE_PAUSE_MINIMUM_S
                         THEN wakeDelay[1] ELSE WAKE_PAUSE_MINIMUM_S) * 1000
    /\ afterWake => (~resuming /\ ~preparing_to_sleep)
    /\ wakeThenTick # "none" => wakeThenTick = "normal"
    /\ wakeState = "running" => IsPrefix(wakeTrace, WakeOrder(TRUE))

WIT_C5 ==
    /\ wakeState = "done"
    /\ afterWake
    /\ wakeApply = <<TRUE>>
    /\ wakeDelay = <<0>>
    /\ wakePaused = 1000

THM_C8 ==
    /\ [](lcdLog # <<>> => (lcdLog[1].fired => lcdLog[1].sched))
    /\ [](pc \in {"speeds", "broadcast"} /\ lcdLog # <<>> =>
             (lcdLog[1].fired <=> (nsTickEven /\ lcdLog[1].sched)))
    /\ [][(pc = "lcd" /\ pc' # "lcd" /\ lcdLog # <<>>) =>
             /\ ~(lcdLog[1].fired /\ lcdLog'[1].fired)
             /\ (lcdLog[1].sched /\ lcdLog'[1].sched) =>
                    (lcdLog[1].fired # lcdLog'[1].fired)]_vars
    /\ [][(pc = "tick_wait" /\ pc' \notin {"tick_wait", "select"}) =>
             (run_lcd_update' = run_lcd_update
              /\ nsTickEven' = nsTickEven)]_vars

\* the LCD update was fired in the first normal tick after ticks without
\* stages
WIT_C8 ==
    /\ lcdLog # <<>>
    /\ lcdLog[1].fired
    /\ lcdLog[1].afterIdle
    /\ pc = "speeds"

\* LCD update tasks that can be outstanding: the one of a tick LCD_TIMEOUT_S
\* seconds ago and those of every second tick of a burst, which has one tick
\* more than the interval is behind
LcdBound == 1 + (MaxStartupDelay + MaxBehindTicks + 1) \div 2

THM_C10 ==
    /\ pc \in {"lcd", "speeds", "broadcast"} =>
        (snapTried = Repos /\ prevErr \subseteq snapTried)
    /\ pc = "broadcast" /\ snapErr # {} => afterErr = {"speeds"}
    /\ (pc \in {"tick_wait", "exited"} /\ snapErr # {}) =>
        (snapTried = Repos /\ afterErr = {"speeds", "broadcast"})

WIT_C10 ==
    /\ pc = "tick_wait"
    /\ prevErr # {}
    /\ snapErr # {}
    /\ snapTried = Repos
    /\ afterErr = {"speeds", "broadcast"}


(***************************************************************************)
(***************************************************************************)
(* The AlertController (alerts.rs).                                        *)
(*                                                                         *)
(* An alert watches one metric of one channel of one device.  The devices  *)
(* are fixed when the controller is built (all_devices); what the most     *)
(* recent Status of a device holds for the alert's channel is the input of *)
(* every process_alerts call.  Log entries carry their rank in time as     *)
(* timestamp: the entries read from the file have the ranks up to 0, the   *)
(* entries of this run the ranks from 1.                                   *)
(***************************************************************************)
(***************************************************************************)
LOG_BUFFER_SIZE == 20

\* bounds of the alert runs
MaxAlerts == 2      \* alert UIDs
MaxLogged == 2      \* entries logged in one run
AlertMin == 60      \* the min of the alerts
AlertMax == 70      \* the max of the alerts

AlertUids == 1..MaxAlerts
AlertStates == {"Active", "Inactive"}
\* the device UIDs an alert can name; all_devices holds the first
DeviceUids == {1, 2}
all_devices == {1}
\* the values a found metric takes: below min, min, max, above max
Values == {AlertMin - 1, AlertMin, AlertMax, AlertMax + 1}
\* what the most recent Status holds for the channel and metric of an alert
Sources ==
    {[kind |-> k, value |-> 0] : k \in {"channel_not_found", "metric_not_found"}}
    \cup {[kind |-> "found", value |-> v] : v \in Values}
NoSource == [kind |-> "none", value |-> 0]
\* the lengths of the log read from the configuration file
LoadedLogLens == {0, LOG_BUFFER_SIZE}
\* a log of n entries of an alert of an earlier run
LoadedLog(n) ==
    [i \in 1..n |-> [uid |-> 0, state |-> "Active", timestamp |-> i - n]]

AlertIndex(as, uid) == CHOOSE i \in 1..Len(as) : as[i].uid = uid
ContainsKey(as, uid) == \E i \in 1..Len(as) : as[i].uid = uid
\* LinkedHashMap::remove
RemoveKey(as, uid) == SelectSeq(as, LAMBDA a : a.uid # uid)
\* LinkedHashMap::insert: a new key goes to the back, an existing key is
\* replaced and moved to the back
InsertKey(as, a) == Append(RemoveKey(as, a.uid), a)

\* activate_alert (alerts.rs:373-383): fires only on a state change
ActivateAlertAlways(a) ==
    [alert |-> [a EXCEPT !.state = "Active"], fire |-> TRUE]
ActivateAlert(a) ==
    IF a.state = "Active"
    THEN [alert |-> a, fire |-> FALSE]
    ELSE [alert |-> [a EXCEPT !.state = "Active"], fire |-> TRUE]

\* deactivate_alert (alerts.rs:387-394)
DeactivateAlert(a) ==
    [alert |-> [a EXCEPT !.state = "Inactive"], fire |-> TRUE]

\* the `continue` of an alert that is left as it is
KeepAlert(a) == [alert |-> a, fire |-> FALSE]

\* the lookup of the alert's value (alerts.rs:255-329): the device, then the
\* channel or temp, then the metric; TRUE when one of them is missing
SourceIgnoringDevice(a, src) == src.kind # "found"
SourceMissing(a, src) ==
    \/ a.device_uid \notin all_devices
    \/ src.kind # "found"

\* the range test (alerts.rs:330-367)
InRangeExclusive(a, value) == value > a.min /\ value < a.max
InRange(a, value) == ~(value > a.max) /\ ~(value < a.min)

\* one round of the loop of process_and_collect_alerts_to_fire
\* (alerts.rs:254-368) for the alert a and what the Status holds for it
EvaluateAlert(a, src) ==
    IF SourceMissing(a, src) THEN ActivateAlert(a)
    ELSE IF ~InRange(a, src.value)
         THEN IF a.state = "Active" THEN KeepAlert(a) ELSE ActivateAlert(a)
         ELSE IF a.state # "Inactive" THEN DeactivateAlert(a)
              ELSE KeepAlert(a)

\* process_and_collect_alerts_to_fire (alerts.rs:252-370): every alert in
\* the order of the map
Evaluations(as, src) == [i \in 1..Len(as) |-> EvaluateAlert(as[i], src[as[i].uid])]
AlertsToFire(as, src) ==
    LET fired == SelectSeq(Evaluations(as, src), LAMBDA e : e.fire)
    IN  [i \in 1..Len(fired) |-> fired[i].alert]

\* log_alert_state_change (alerts.rs:398-418)
LogAlertStateChange(ls, entry) ==
    Append(IF Len(ls) > LOG_BUFFER_SIZE THEN Tail(ls) ELSE ls, entry)

\* the entries process_alerts makes of the alerts to fire
AlertLogs(fire, n) ==
    [i \in 1..Len(fire) |->
        [uid |-> fire[i].uid, state |-> fire[i].state, timestamp |-> n + i]]

RECURSIVE LogAll(_, _)
LogAll(ls, entries) ==
    IF entries = <<>> THEN ls
    ELSE LogAll(LogAlertStateChange(ls, Head(entries)), Tail(entries))

\* the alert data is read from the configuration file
\* (load_data_from_alert_config_file, alerts.rs:128-169) and the handle is
\* set before the first process_alerts call
AlertInit ==
    /\ MainInit("alerts")
    /\ ModeIdle
    /\ alerts = <<>>
    /\ alert_handle = TRUE
    /\ \E n \in LoadedLogLens : logs = LoadedLog(n)
    /\ seen = [u \in AlertUids |-> NoSource]
    /\ broadcast = <<>>
    /\ lastEntry = [u \in AlertUids |-> "none"]
    /\ logged = 0
    /\ CfgIdle
    /\ AlignIdle
    /\ HwIdle

baseVars == <<loopVars, sleepVars, timeVars, taskVars, repoVars, obsVars>>
mainVars == <<baseVars, cfgVars, alignVars, hwVars>>

\* process_alerts (alerts.rs:235-248)
ProcessAlerts(src) ==
    LET fire == AlertsToFire(alerts, src)
        entries == AlertLogs(fire, logged)
    IN  /\ logged + Len(fire) <= MaxLogged
        /\ alerts' = [i \in 1..Len(alerts) |-> Evaluations(alerts, src)[i].alert]
        /\ logs' = LogAll(logs, entries)
        /\ broadcast' = IF alert_handle THEN entries ELSE <<>>
        /\ seen' = src
        /\ lastEntry' = [u \in AlertUids |->
                           IF \E i \in 1..Len(fire) : fire[i].uid = u
                           THEN fire[AlertIndex(fire, u)].state
                           ELSE lastEntry[u]]
        /\ logged' = logged + Len(fire)
        /\ UNCHANGED <<alert_handle, mainVars, modeAll>>

\* create (alerts.rs:192-201)
AlertCreate(a) ==
    /\ IF ContainsKey(alerts, a.uid)
       THEN UNCHANGED <<alerts, seen, lastEntry>>
       ELSE /\ alerts' = InsertKey(alerts, a)
            /\ seen' = [seen EXCEPT ![a.uid] = NoSource]
            /\ lastEntry' = [lastEntry EXCEPT ![a.uid] = "none"]
    /\ UNCHANGED <<alert_handle, logs, broadcast, logged, mainVars, modeAll>>

\* update (alerts.rs:204-219): the state of the stored alert is kept
AlertUpdate(a) ==
    /\ IF ~ContainsKey(alerts, a.uid)
       THEN UNCHANGED <<alerts, seen>>
       ELSE /\ alerts' = InsertKey(alerts,
                [a EXCEPT !.state = alerts[AlertIndex(alerts, a.uid)].state])
            /\ seen' = [seen EXCEPT ![a.uid] = NoSource]
    /\ UNCHANGED <<alert_handle, logs, broadcast, lastEntry, logged, mainVars, modeAll>>

\* delete (alerts.rs:222-231)
AlertDelete(uid) ==
    /\ IF ~ContainsKey(alerts, uid)
       THEN UNCHANGED <<alerts, seen, lastEntry>>
       ELSE /\ alerts' = RemoveKey(alerts, uid)
            /\ seen' = [seen EXCEPT ![uid] = NoSource]
            /\ lastEntry' = [lastEntry EXCEPT ![uid] = "none"]
    /\ UNCHANGED <<alert_handle, logs, broadcast, logged, mainVars, modeAll>>

\* the alerts a caller can hand to create and update
NewAlerts ==
    [uid : AlertUids, state : AlertStates, device_uid : DeviceUids,
     min : {AlertMin}, max : {AlertMax}]

\* what the Status holds for the alerts that exist
StatusInputs ==
    {src \in [AlertUids -> Sources \cup {NoSource}] :
        \A u \in AlertUids : src[u] = NoSource <=> ~ContainsKey(alerts, u)}

AlertNext ==
    \/ \E src \in StatusInputs : ProcessAlerts(src)
    \/ \E a \in NewAlerts : AlertCreate(a)
    \/ \E a \in NewAlerts : AlertUpdate(a)
    \/ \E uid \in AlertUids : AlertDelete(uid)

SpecAlerts == AlertInit /\ [][AlertNext]_vars


(***************************************************************************)
(* Claims about the AlertController.                                       *)
(***************************************************************************)
\* a step of process_alerts: the same alerts as before, and every one of
\* them has been looked up in the Status
ProcessAlertsStep ==
    /\ Len(alerts') = Len(alerts)
    /\ \A i \in 1..Len(alerts) :
        /\ alerts'[i].uid = alerts[i].uid
        /\ seen'[alerts[i].uid] # NoSource

\* <<uid, state>> of the entries of a log
UidStates(ls) == [i \in 1..Len(ls) |-> <<ls[i].uid, ls[i].state>>]
\* the alerts whose state differs across the step, with their new state
StateChanges ==
    LET changed == SelectSeq([i \in 1..Len(alerts) |-> i],
                             LAMBDA i : alerts'[i].state # alerts[i].state)
    IN  [k \in 1..Len(changed) |->
            <<alerts'[changed[k]].uid, alerts'[changed[k]].state>>]
\* ls2 is ls1 without some of its oldest entries and with `entries` appended
AppendedTo(ls1, entries, ls2) ==
    /\ Len(ls2) >= Len(entries)
    /\ SubSeq(ls2, Len(ls2) - Len(entries) + 1, Len(ls2)) = entries
    /\ \E k \in 0..Len(ls1) :
        SubSeq(ls2, 1, Len(ls2) - Len(entries)) = SubSeq(ls1, k + 1, Len(ls1))

\* C11: alert state changes are edge-triggered.  A process_alerts call logs
\* and broadcasts one entry for exactly the alerts whose state after the
\* call differs from their state before it, never two entries for one
\* alert; the state of an entry differs from the state of the alert's
\* previous entry (no create or delete of the alert in between), and an
\* alert that is given the same input as in the call before gets no entry.
THM_C11 ==
    [][ProcessAlertsStep =>
        /\ UidStates(broadcast') = StateChanges
        /\ AppendedTo(logs, broadcast', logs')
        /\ \A i, j \in 1..Len(broadcast') :
            broadcast'[i].uid = broadcast'[j].uid => i = j
        /\ \A i \in 1..Len(broadcast') :
            broadcast'[i].state # lastEntry[broadcast'[i].uid]
        /\ \A i \in 1..Len(broadcast') :
            seen'[broadcast'[i].uid] # seen[broadcast'[i].uid]
    ]_vars
\* one of two alerts got an entry in the last call, and it was the
\* Inactive entry that follows the alert's Active entry
WIT_C11 ==
    /\ Len(alerts) = 2
    /\ Len(broadcast) = 1
    /\ broadcast[1].state = "Inactive"
    /\ lastEntry[broadcast[1].uid] = "Inactive"
    /\ logged = 2
    /\ logs[Len(logs) - 1].uid = broadcast[1].uid
    /\ logs[Len(logs) - 1].state = "Active"


\* the entries <<number of the reading, new state>> that evaluating the
\* readings one after the other produces for the alert a
RECURSIVE EvaluateReadings(_, _, _)
EvaluateReadings(a, readings, k) ==
    IF k > Len(readings) THEN <<>>
    ELSE LET e == EvaluateAlert(a, [kind |-> "found", value |-> readings[k]])
         IN  (IF e.fire THEN <<<<k, e.alert.state>>>> ELSE <<>>)
             \o EvaluateReadings(e.alert, readings, k + 1)

\* an Inactive alert on a present device with max = 70
ExampleAlert(mn) ==
    [uid |-> 1, state |-> "Inactive", device_uid |-> 1, min |-> mn, max |-> 70]

CEX_C13 == Len(logs) <= LOG_BUFFER_SIZE


\* C14: an alert whose device is not present, or whose channel, temp or
\* metric is missing from the Status, is Active after the evaluation that
\* finds this; the evaluation makes exactly one entry for it, an Active
\* one, when the alert was Inactive, and no entry when the alert was Active
\* already, so that it stays Active without further entries while the
\* source stays missing.
THM_C14 ==
    [][ProcessAlertsStep =>
        \A i \in 1..Len(alerts) :
            LET a == alerts[i]
                src == seen'[a.uid]
                entries == {k \in 1..Len(broadcast') : broadcast'[k].uid = a.uid}
            IN  (a.device_uid \notin all_devices \/ src.kind # "found") =>
                    /\ alerts'[i].state = "Active"
                    /\ a.state = "Inactive" =>
                        /\ Cardinality(entries) = 1
                        /\ \A k \in entries : broadcast'[k].state = "Active"
                    /\ a.state = "Active" => entries = {}
                    /\ seen[a.uid] = src => entries = {}
    ]_vars
\* an alert on a present device whose channel is missing got its Active
\* entry, and the last call found the channel missing again and made no
\* entry
WIT_C14 ==
    \E i \in 1..Len(alerts) :
        /\ alerts[i].device_uid \in all_devices
        /\ seen[alerts[i].uid].kind = "channel_not_found"
        /\ alerts[i].state = "Active"
        /\ lastEntry[alerts[i].uid] = "Active"
        /\ broadcast = <<>>


(***************************************************************************)
(***************************************************************************)
(* The ModeController (modes.rs) and the saved device settings             *)
(* (config.rs).                                                            *)
(*                                                                         *)
(* A Setting is the record of its optional fields, <<>> for None and <<v>> *)
(* for Some(v); the channel name is the key it is stored under.  The       *)
(* lighting and lcd fields are left out.  A Mode maps some devices to a    *)
(* map of some channels to Settings.  The Config stores one item per       *)
(* channel of a device; get_device_settings makes a Setting of every item. *)
(***************************************************************************)
(***************************************************************************)
DEFAULT_PROFILE_UID == "0"

\* bounds of the mode runs
MaxModes == 2       \* stored Modes
FixedDuty == 50     \* the duty of the fixed speed settings

ModeUids == 1..MaxModes
UnknownModeUid == MaxModes + 1
Channels == {"fan", "pump"}

\* Setting::default() (setting.rs:56-69, with the profile_uid of config.rs)
EmptySetting ==
    [speed_fixed |-> <<>>, speed_profile |-> <<>>, temp_source |-> <<>>,
     pwm_mode |-> <<>>, reset_to_default |-> <<>>, profile_uid |-> <<>>]
FixedSetting == [EmptySetting EXCEPT !.speed_fixed = <<FixedDuty>>]
DefaultProfileSetting ==
    [EmptySetting EXCEPT !.profile_uid = <<DEFAULT_PROFILE_UID>>]
\* the reset_setting of reset_device_settings (modes.rs:324-328)
ResetSetting == [EmptySetting EXCEPT !.reset_to_default = <<TRUE>>]

\* is_default_profile (modes.rs:255-257)
IsDefaultProfileNever(profile_uid) == FALSE
IsDefaultProfile(profile_uid) ==
    profile_uid # <<>> /\ profile_uid[1] = DEFAULT_PROFILE_UID

Unremoved(f, k) == f
\* f without the key k, and f with k mapped to v
Without(f, k) == [x \in DOMAIN f \ {k} |-> f[x]]
With(f, k, v) == [x \in DOMAIN f \cup {k} |-> IF x = k THEN v ELSE f[x]]

\* Config::set_device_setting (config.rs:147-175) on the channel items of
\* one device: set_setting_fixed_speed (177-183) leaves a stored
\* profile_uid, set_setting_speed_profile (185-205), set_profile_uid
\* (299-306)
SetDeviceSetting(items, channel, setting) ==
    LET item0 == IF channel \in DOMAIN items THEN items[channel]
                 ELSE EmptySetting
        item1 == IF setting.pwm_mode # <<>>
                 THEN [item0 EXCEPT !.pwm_mode = setting.pwm_mode]
                 ELSE item0
        item2 ==
            IF setting.reset_to_default = <<TRUE>> THEN EmptySetting
            ELSE IF setting.speed_fixed # <<>>
            THEN [item1 EXCEPT !.speed_profile = <<>>, !.temp_source = <<>>,
                               !.speed_fixed = setting.speed_fixed]
            ELSE IF setting.speed_profile # <<>>
            THEN [item1 EXCEPT !.speed_fixed = <<>>,
                               !.speed_profile = setting.speed_profile,
                               !.temp_source =
                                   IF setting.temp_source # <<>>
                                   THEN setting.temp_source ELSE @]
            ELSE IF setting.profile_uid # <<>>
            THEN [item1 EXCEPT !.speed_profile = <<>>, !.temp_source = <<>>,
                               !.speed_fixed = <<>>,
                               !.profile_uid = setting.profile_uid]
            ELSE item1
    IN  IF item2 = EmptySetting THEN Without(items, channel)
        ELSE With(items, channel, item2)

\* Config::get_device_settings (config.rs:310-339), keyed by channel name
\* as in activate_mode (modes.rs:286-291)
GetDeviceSettings(saved, device_uid) ==
    IF device_uid \in DOMAIN saved THEN saved[device_uid] ELSE <<>>

\* one Mode against the saved settings (modes.rs:185-241): TRUE when no
\* `continue 'modes` is taken
ModeMatches(mode, saved) ==
    \A d \in all_devices :
        LET current == GetDeviceSettings(saved, d)
        IN  IF d \notin DOMAIN mode
            THEN DOMAIN current = {}
            ELSE /\ ~\E c \in DOMAIN mode[d] :
                        /\ c \notin DOMAIN current
                        /\ ~IsDefaultProfile(mode[d][c].profile_uid)
                 /\ \A c \in DOMAIN current :
                        IF c \notin DOMAIN mode[d]
                        THEN IsDefaultProfile(current[c].profile_uid)
                        ELSE current[c] = mode[d][c]

\* determine_active_modes (modes.rs:178-253)
DetermineActiveModes(ms, saved) ==
    {uid \in DOMAIN ms : ModeMatches(ms[uid], saved)}

\* the operations activate_mode spawns for one device (modes.rs:280-308):
\* reset_device_settings (314-342), reset_unset_mode_channels (344-379),
\* apply_mode_channel_settings (381-412)
ResetChannels(mode, saved, d) ==
    LET current == GetDeviceSettings(saved, d)
    IN  IF d \notin DOMAIN mode THEN DOMAIN current
        ELSE {c \in DOMAIN current : c \notin DOMAIN mode[d]}
ApplyChannels(mode, saved, d) ==
    LET current == GetDeviceSettings(saved, d)
    IN  IF d \notin DOMAIN mode THEN {}
        ELSE {c \in DOMAIN mode[d] :
                ~(c \in DOMAIN current /\ current[c] = mode[d][c])}
ModeOperations(mode, saved) ==
    UNION {{<<d, c, "reset">> : c \in ResetChannels(mode, saved, d)}
           \cup {<<d, c, "apply">> : c \in ApplyChannels(mode, saved, d)} :
           d \in all_devices}

\* the channel item after the task spawned for it has run: a reset is
\* saved whatever set_reset returned (modes.rs:330-339, 367-376), a Mode
\* setting only when set_config_setting succeeded (modes.rs:399-410)
RECURSIVE SaveAll(_, _, _, _)
SaveAll(items, mode_settings, ops, failed) ==
    IF ops = {} THEN items
    ELSE LET op == CHOOSE o \in ops : TRUE
             next ==
                 IF op[3] = "reset"
                 THEN SetDeviceSetting(items, op[2], ResetSetting)
                 ELSE IF op \in failed THEN items
                 ELSE SetDeviceSetting(items, op[2], mode_settings[op[2]])
         IN  SaveAll(next, mode_settings, ops \ {op}, failed)

SavedAfter(mode, saved, failed) ==
    [d \in DOMAIN saved |->
        IF d \in all_devices
        THEN SaveAll(saved[d], IF d \in DOMAIN mode THEN mode[d] ELSE <<>>,
                     {op \in ModeOperations(mode, saved) : op[1] = d}, failed)
        ELSE saved[d]]

\* the settings a Mode holds for a channel, the channel maps of a device,
\* and the Modes of the runs
ModeSettings == {FixedSetting, DefaultProfileSetting}
ChannelMaps == UNION {[cs -> ModeSettings] : cs \in SUBSET Channels}
\* what a Mode holds for a device that is not present
AbsentDeviceMap == [c \in {"fan"} |-> FixedSetting]
AllDeviceSettings ==
    UNION {{m \in [ds -> ChannelMaps \cup {AbsentDeviceMap}] :
                \A d \in ds : d \notin all_devices => m[d] = AbsentDeviceMap} :
           ds \in SUBSET DeviceUids}

NoCall == [op |-> "none", uid |-> 0, ok |-> TRUE, ops |-> {}]

\* the Modes are read from the Mode configuration file
\* (fill_data_from_mode_config_file, modes.rs:116-156); the present devices
\* have no saved settings yet
ModeInit ==
    /\ MainInit("modes")
    /\ AlertIdle
    /\ modes \in [ModeUids -> AllDeviceSettings]
    /\ mode_order = [i \in ModeUids |-> i]
    /\ active_modes = {}
    /\ device_settings = [d \in all_devices |-> <<>>]
    /\ lastCall = NoCall
    /\ repeat = FALSE
    /\ CfgIdle
    /\ AlignIdle
    /\ HwIdle

alertAll == <<alertVars, alertObs>>

\* a channel setting is changed or reset through the API: the handler
\* saves it with Config::set_device_setting
ChangeSetting(d, c, setting) ==
    /\ device_settings' =
        [device_settings EXCEPT ![d] = SetDeviceSetting(@, c, setting)]
    /\ lastCall' = [NoCall EXCEPT !.op = "set"]
    /\ repeat' = FALSE
    /\ UNCHANGED <<modes, mode_order, active_modes, mainVars, alertAll>>

\* determine_active_modes_uids (modes.rs:171-175)
DetermineActiveModesUids ==
    /\ active_modes' = DetermineActiveModes(modes, device_settings)
    /\ lastCall' = [NoCall EXCEPT !.op = "determine"]
    /\ repeat' = FALSE
    /\ UNCHANGED <<modes, mode_order, device_settings, mainVars, alertAll>>

\* activate_mode (modes.rs:267-312); `failed` are the operations whose
\* set_reset or set_config_setting fails, `saved_ok` is the result of
\* save_config_file
ActivateMode(uid, failed, saved_ok) ==
    /\ IF uid \notin DOMAIN modes
       THEN /\ lastCall' = [op |-> "activate", uid |-> uid, ok |-> FALSE,
                            ops |-> {}]
            /\ UNCHANGED device_settings
       ELSE IF uid \in active_modes
       THEN /\ lastCall' = [op |-> "activate", uid |-> uid, ok |-> TRUE,
                            ops |-> {}]
            /\ UNCHANGED device_settings
       ELSE LET ops == ModeOperations(modes[uid], device_settings)
            IN  /\ device_settings' =
                     SavedAfter(modes[uid], device_settings, failed)
                /\ lastCall' = [op |-> "activate", uid |-> uid,
                                ok |-> failed = {} /\ saved_ok, ops |-> ops]
    /\ repeat' = (lastCall.op = "activate" /\ lastCall.uid = uid /\ lastCall.ok)
    /\ UNCHANGED <<modes, mode_order, active_modes, mainVars, alertAll>>

\* the settings the API hands to set_device_setting
ApiSettings == {FixedSetting, DefaultProfileSetting, ResetSetting}
\* the operations an activate_mode call of the Mode would spawn now
SpawnedOperations(uid) ==
    IF uid \in DOMAIN modes /\ uid \notin active_modes
    THEN ModeOperations(modes[uid], device_settings)
    ELSE {}

ModeNext ==
    \/ \E d \in all_devices, c \in Channels, setting \in ApiSettings :
         ChangeSetting(d, c, setting)
    \/ DetermineActiveModesUids
    \/ \E uid \in ModeUids \cup {UnknownModeUid} :
         \E failed \in SUBSET SpawnedOperations(uid), saved_ok \in BOOLEAN :
            ActivateMode(uid, failed, saved_ok)

SpecModes == ModeInit /\ [][ModeNext]_vars

\* update_mode_order (modes.rs:507-521); `saved_ok` is the result of
\* save_modes_data
UpdateModeOrder(mode_uids, saved_ok) ==
    /\ IF Len(mode_order) # Len(mode_uids)
       THEN /\ lastCall' = [NoCall EXCEPT !.op = "order", !.ok = FALSE]
            /\ UNCHANGED mode_order
       ELSE /\ mode_order' = mode_uids
            /\ lastCall' = [NoCall EXCEPT !.op = "order", !.ok = saved_ok]
    /\ repeat' = FALSE
    /\ UNCHANGED <<modes, active_modes, device_settings, mainVars, alertAll>>

\* the lists of Mode UIDs a caller can hand to update_mode_order
OrderRequests ==
    UNION {[1..n -> ModeUids \cup {UnknownModeUid}] : n \in 0..MaxModes + 1}

OrderNext ==
    \E mode_uids \in OrderRequests, saved_ok \in BOOLEAN :
        UpdateModeOrder(mode_uids, saved_ok)

SpecModeOrder == ModeInit /\ [][OrderNext]_vars


(***************************************************************************)
(* Claims about the ModeController.                                        *)
(***************************************************************************)
\* the Setting references the Default Profile
ReferencesDefault(setting) == setting.profile_uid = <<DEFAULT_PROFILE_UID>>

\* the Mode holds for every present device what is saved for it, a missing
\* entry on either side standing for the Default Profile
MatchesSaved(mode) ==
    \A d \in all_devices :
        LET saved == device_settings[d]
        IN  IF d \notin DOMAIN mode
            THEN DOMAIN saved = {}
            ELSE /\ \A c \in DOMAIN mode[d] :
                     \/ c \in DOMAIN saved /\ mode[d][c] = saved[c]
                     \/ c \notin DOMAIN saved /\ ReferencesDefault(mode[d][c])
                 /\ \A c \in DOMAIN saved :
                     \/ c \in DOMAIN mode[d] /\ saved[c] = mode[d][c]
                     \/ c \notin DOMAIN mode[d] /\ ReferencesDefault(saved[c])

CEX_C16 ==
    (lastCall.op = "activate" /\ lastCall.ok /\ lastCall.uid \in DOMAIN modes)
        => /\ MatchesSaved(modes[lastCall.uid])
           /\ lastCall.uid \in DetermineActiveModes(modes, device_settings)


\* C17: activate_mode is idempotent.  A call that directly follows a call
\* for the same Mode in which every repository operation succeeded issues
\* no reset and no apply and leaves the saved settings as they are.
\* (Violated: the fixed speed saved over a profile reads back with the old
\* profile_uid, differs from the Mode's setting and is applied again.)
CEX_C17 ==
    [][(lastCall'.op = "activate" /\ repeat') =>
        (lastCall'.ops = {} /\ device_settings' = device_settings)]_vars


\* a step of activate_mode on a stored Mode
ActivateModeStep ==
    /\ lastCall'.op = "activate"
    /\ lastCall'.uid \in DOMAIN modes
\* the Mode has an entry for the channel of the device
HasEntry(mode, d, c) == d \in DOMAIN mode /\ c \in DOMAIN mode[d]
\* the operations the activation of the Mode is described to issue: a
\* reset for every saved channel without an entry in the Mode, an apply for
\* every entry of the Mode whose saved setting is absent or different
DescribedOperations(mode) ==
    {op \in all_devices \X Channels \X {"reset", "apply"} :
        LET d == op[1]
            c == op[2]
            saved == device_settings[d]
        IN  IF op[3] = "reset"
            THEN c \in DOMAIN saved /\ ~HasEntry(mode, d, c)
            ELSE HasEntry(mode, d, c)
                 /\ (c \notin DOMAIN saved \/ saved[c] # mode[d][c])}

\* C18: activate_mode issues exactly the described resets and applies for
\* the present devices, and at most one operation per device and channel.
\* (Violated: for a Mode in active_modes no operation is issued at all,
\* whatever the saved settings are, modes.rs:275-278.)
CEX_C18 ==
    [][ActivateModeStep =>
        /\ lastCall'.ops = DescribedOperations(modes[lastCall'.uid])
        /\ \A op1, op2 \in lastCall'.ops :
            (op1[1] = op2[1] /\ op1[2] = op2[2]) => op1 = op2
    ]_vars

\* C19: during activate_mode a channel without an entry in the Mode whose
\* saved setting references the Default Profile gets no reset and keeps its
\* saved setting.  (Violated: reset_unset_mode_channels and
\* reset_device_settings reset every saved channel the Mode has no entry
\* for, modes.rs:320-340, 351-377.)
CEX_C19 ==
    [][ActivateModeStep =>
        \A d \in all_devices : \A c \in DOMAIN device_settings[d] :
            (/\ ~HasEntry(modes[lastCall'.uid], d, c)
             /\ ReferencesDefault(device_settings[d][c]))
            => /\ <<d, c, "reset">> \notin lastCall'.ops
               /\ c \in DOMAIN device_settings'[d]
               /\ device_settings'[d][c] = device_settings[d][c]
    ]_vars


\* the number of times x occurs in the sequence
Occurrences(seq, x) == Cardinality({i \in 1..Len(seq) : seq[i] = x})
\* the two sequences hold the same UIDs the same number of times
SameMultiset(seq1, seq2) ==
    /\ Len(seq1) = Len(seq2)
    /\ \A i \in 1..Len(seq1) :
        Occurrences(seq1, seq1[i]) = Occurrences(seq2, seq1[i])

\* C20: update_mode_order succeeds only with a permutation of the stored
\* Mode UIDs, and a list that is none leaves the stored order as it was.
\* (Violated: only the length of the list is compared, modes.rs:510.)
CEX_C20 ==
    [][lastCall'.op = "order" =>
        ((lastCall'.ok \/ mode_order' # mode_order)
            => SameMultiset(mode_order', mode_order))
    ]_vars


(***************************************************************************)
(***************************************************************************)
(* The stored Modes (modes.rs:414-649): create, duplicate, update, delete, *)
(* reorder, and the removal of a deleted Profile.  The name of a Mode is   *)
(* left out.  Uuid::new_v4() is a UID that no stored Mode and no entry of  *)
(* the order has.                                                          *)
(***************************************************************************)
(***************************************************************************)
MaxCreated == 1     \* UIDs for new Modes

NewModeUids == (UnknownModeUid + 1)..(UnknownModeUid + MaxCreated)
FreshModeUids ==
    {uid \in NewModeUids :
        uid \notin DOMAIN modes /\ \A i \in 1..Len(mode_order) : mode_order[i] # uid}

ProfileUids == {"0", "1"}
ProfileSetting == [EmptySetting EXCEPT !.profile_uid = <<"1">>]

\* the saved settings of the devices that are present only
GetPresentDeviceSettings(saved) ==
    [d \in DOMAIN saved \cap all_devices |-> GetDeviceSettings(saved, d)]

\* Config::get_all_devices_settings (config.rs:341-350) as the map
\* get_all_device_settings makes of it (modes.rs:461-473)
GetAllDeviceSettings(saved) ==
    [d \in DOMAIN saved |-> GetDeviceSettings(saved, d)]

\* create_mode (modes.rs:416-433)
CreateMode(uid, saved_ok) ==
    /\ uid \in FreshModeUids
    /\ modes' = With(modes, uid, GetAllDeviceSettings(device_settings))
    /\ mode_order' = Append(mode_order, uid)
    /\ lastCall' = [NoCall EXCEPT !.op = "create", !.uid = uid, !.ok = saved_ok]
    /\ repeat' = FALSE
    /\ UNCHANGED <<active_modes, device_settings, mainVars, alertAll>>

\* duplicate_mode (modes.rs:436-459)
DuplicateMode(mode_uid_to_dup, uid, saved_ok) ==
    /\ uid \in FreshModeUids
    /\ IF mode_uid_to_dup \notin DOMAIN modes
       THEN /\ lastCall' = [NoCall EXCEPT !.op = "duplicate", !.ok = FALSE]
            /\ UNCHANGED <<modes, mode_order>>
       ELSE /\ modes' = With(modes, uid, modes[mode_uid_to_dup])
            /\ mode_order' = Append(mode_order, uid)
            /\ lastCall' = [NoCall EXCEPT !.op = "duplicate", !.uid = uid,
                                          !.ok = saved_ok]
    /\ repeat' = FALSE
    /\ UNCHANGED <<active_modes, device_settings, mainVars, alertAll>>

\* update_mode (modes.rs:476-488): only the name changes
UpdateMode(mode_uid, saved_ok) ==
    /\ lastCall' = [NoCall EXCEPT !.op = "update", !.uid = mode_uid,
                        !.ok = mode_uid \in DOMAIN modes /\ saved_ok]
    /\ repeat' = FALSE
    /\ UNCHANGED <<modeVars, mainVars, alertAll>>

\* update_mode_with_current_settings (modes.rs:491-504)
UpdateModeWithCurrentSettings(mode_uid, saved_ok) ==
    /\ IF mode_uid \notin DOMAIN modes
       THEN /\ lastCall' = [NoCall EXCEPT !.op = "update_settings",
                                          !.uid = mode_uid, !.ok = FALSE]
            /\ UNCHANGED modes
       ELSE /\ modes' = [modes EXCEPT
                            ![mode_uid] = GetAllDeviceSettings(device_settings)]
            /\ lastCall' = [NoCall EXCEPT !.op = "update_settings",
                                          !.uid = mode_uid, !.ok = saved_ok]
    /\ repeat' = FALSE
    /\ UNCHANGED <<mode_order, active_modes, device_settings, mainVars, alertAll>>

\* delete_mode (modes.rs:524-537)
DeleteMode(mode_uid, saved_ok) ==
    /\ IF mode_uid \notin DOMAIN modes
       THEN /\ lastCall' = [NoCall EXCEPT !.op = "delete", !.uid = mode_uid,
                                          !.ok = FALSE]
            /\ UNCHANGED <<modes, mode_order>>
       ELSE /\ modes' = Without(modes, mode_uid)
            /\ mode_order' = SelectSeq(mode_order, LAMBDA uid : uid # mode_uid)
            /\ lastCall' = [NoCall EXCEPT !.op = "delete", !.uid = mode_uid,
                                          !.ok = saved_ok]
    /\ repeat' = FALSE
    /\ UNCHANGED <<active_modes, device_settings, mainVars, alertAll>>

\* search_for_deleted_profile (modes.rs:625-649): the entries of a Mode
\* that reference the Profile
ReferencesAnyProfile(setting, profile_uid) == setting.profile_uid # <<>>
ReferencesProfile(setting, profile_uid) ==
    setting.profile_uid # <<>> /\ setting.profile_uid[1] = profile_uid

\* remove_affected_settings (modes.rs:587-605) on one Mode: the entries
\* are removed, and with them the device maps they leave empty
RemoveAffectedSettings(mode, profile_uid) ==
    LET affected(d) ==
            {c \in DOMAIN mode[d] : ReferencesProfile(mode[d][c], profile_uid)}
        emptied == {d \in DOMAIN mode :
                      affected(d) # {} /\ affected(d) = DOMAIN mode[d]}
    IN  [d \in DOMAIN mode \ emptied |->
            [c \in DOMAIN mode[d] \ affected(d) |-> mode[d][c]]]

\* profile_deleted (modes.rs:564-569)
ProfileDeleted(profile_uid, saved_ok) ==
    /\ modes' = [uid \in DOMAIN modes |->
                    RemoveAffectedSettings(modes[uid], profile_uid)]
    /\ lastCall' = [NoCall EXCEPT !.op = "profile_deleted", !.ok = saved_ok]
    /\ repeat' = FALSE
    /\ UNCHANGED <<mode_order, active_modes, device_settings, mainVars, alertAll>>

\* the Modes of the runs that change the stored Modes
StoredModes ==
    {<<>>,
     [d \in all_devices |-> [c \in {"fan"} |-> ProfileSetting]],
     [d \in all_devices |->
        [c \in Channels |-> IF c = "fan" THEN ProfileSetting ELSE FixedSetting]],
     [d \in DeviceUids |->
        IF d \in all_devices THEN [c \in {"pump"} |-> ProfileSetting]
        ELSE AbsentDeviceMap]}
StoreChannels == {"fan"}

\* the Modes are read from the Mode configuration file; the Config holds
\* a table for every device it has seen
StoreInit ==
    /\ MainInit("store")
    /\ AlertIdle
    /\ modes \in [ModeUids -> StoredModes]
    /\ mode_order = [i \in ModeUids |-> i]
    /\ active_modes = {}
    /\ device_settings =
        [d \in DeviceUids |-> IF d \in all_devices THEN <<>> ELSE AbsentDeviceMap]
    /\ lastCall = NoCall
    /\ repeat = FALSE
    /\ CfgIdle
    /\ AlignIdle
    /\ HwIdle

StoreNext ==
    \/ \E d \in all_devices, c \in StoreChannels, setting \in ApiSettings :
         ChangeSetting(d, c, setting)
    \/ \E uid \in NewModeUids, saved_ok \in BOOLEAN : CreateMode(uid, saved_ok)
    \/ \E src \in ModeUids \cup {UnknownModeUid}, uid \in NewModeUids,
          saved_ok \in BOOLEAN :
         DuplicateMode(src, uid, saved_ok)
    \/ \E uid \in ModeUids \cup {UnknownModeUid}, saved_ok \in BOOLEAN :
         UpdateMode(uid, saved_ok)
    \/ \E uid \in ModeUids \cup {UnknownModeUid}, saved_ok \in BOOLEAN :
         UpdateModeWithCurrentSettings(uid, saved_ok)
    \/ \E uid \in ModeUids \cup NewModeUids \cup {UnknownModeUid},
          saved_ok \in BOOLEAN :
         DeleteMode(uid, saved_ok)
    \/ \E profile_uid \in ProfileUids, saved_ok \in BOOLEAN :
         ProfileDeleted(profile_uid, saved_ok)

SpecModeStore == StoreInit /\ [][StoreNext]_vars


(***************************************************************************)
(* Claims about the stored Modes                                           *)
(***************************************************************************)
\* a step of create_mode: the only call that ends with op "create", and it
\* always lengthens the order
CreateModeStep == lastCall'.op = "create" /\ mode_order' # mode_order

\* C21: create_mode adds exactly one Mode: its UID is the UID of no Mode
\* stored before, its settings are the saved settings of every device at the
\* time of the call, its UID is appended at the end of the order, and every
\* Mode stored before and the order of the previous UIDs are unchanged.
THM_C21 ==
    [][CreateModeStep =>
        \E uid \in DOMAIN modes' \ DOMAIN modes :
            /\ DOMAIN modes' = DOMAIN modes \cup {uid}
            /\ DOMAIN modes'[uid] = DOMAIN device_settings
            /\ \A d \in DOMAIN device_settings :
                 modes'[uid][d] = GetDeviceSettings(device_settings, d)
            /\ mode_order' = Append(mode_order, uid)
            /\ \A other \in DOMAIN modes : modes'[other] = modes[other]]_vars

\* a Mode was created while a device had a saved setting and another device
\* of the configuration was absent
WIT_C21 ==
    /\ lastCall.op = "create"
    /\ lastCall.uid \in DOMAIN modes
    /\ \E d \in all_devices : modes[lastCall.uid][d] # <<>>
    /\ \E d \in DeviceUids \ all_devices : d \in DOMAIN modes[lastCall.uid]
    /\ Len(mode_order) = MaxModes + 1

\* the entries of a Mode's device map that reference the Profile
EntriesOf(mode, d, profile_uid) ==
    {c \in DOMAIN mode[d] : mode[d][c].profile_uid = <<profile_uid>>}

\* what the claim says of one Mode before and after the removal
ProfileRemovedFrom(before, after, profile_uid) ==
    /\ DOMAIN after \subseteq DOMAIN before
    /\ \A d \in DOMAIN after :
         /\ DOMAIN after[d] = DOMAIN before[d] \ EntriesOf(before, d, profile_uid)
         /\ \A c \in DOMAIN after[d] : after[d][c] = before[d][c]
    /\ \A d \in DOMAIN before :
         d \in DOMAIN after <=>
            \/ EntriesOf(before, d, profile_uid) = {}
            \/ EntriesOf(before, d, profile_uid) # DOMAIN before[d]

\* C22: after profile_deleted(P) no Mode has an entry whose Setting
\* references P, every device map these removals emptied is removed from its
\* Mode, every other entry of every Mode is unchanged, and no Mode is
\* removed or reordered.
THM_C22 ==
    [][\A profile_uid \in ProfileUids :
          (/\ lastCall'.op = "profile_deleted"
           /\ \E saved_ok \in BOOLEAN : ProfileDeleted(profile_uid, saved_ok)) =>
             /\ DOMAIN modes' = DOMAIN modes
             /\ mode_order' = mode_order
             /\ \A uid \in DOMAIN modes :
                  /\ ProfileRemovedFrom(modes[uid], modes'[uid], profile_uid)
                  /\ \A d \in DOMAIN modes'[uid] :
                       EntriesOf(modes'[uid], d, profile_uid) = {}]_vars

\* a Profile was deleted: one Mode kept only the other channel of a device,
\* another lost the whole map of the device and keeps another device's
WIT_C22 ==
    /\ lastCall.op = "profile_deleted"
    /\ \E uid \in DOMAIN modes :
         modes[uid] = [d \in all_devices |-> [c \in {"pump"} |-> FixedSetting]]
    /\ \E uid \in DOMAIN modes : DOMAIN modes[uid] = DeviceUids \ all_devices


\* the calls of the Mode controller that change the stored Modes
MutatingCalls ==
    {"create", "duplicate", "update", "update_settings", "order", "delete"}

\* C30: when a mutating call of the Mode controller (create_mode,
\* duplicate_mode, update_mode, update_mode_with_current_settings,
\* update_mode_order, delete_mode) returns an error, the Modes and the order
\* in memory are the same as before the call; likewise the alerts for
\* create, update and delete of the Alert controller.
CEX_C30 ==
    [][(lastCall'.op \in MutatingCalls /\ ~lastCall'.ok) =>
          (modes' = modes /\ mode_order' = mode_order)]_vars

(***************************************************************************)
(***************************************************************************)
(* The general settings of the configuration (config.rs:565-604).  A key   *)
(* of the [settings] table is missing, holds a value of the type that is   *)
(* read, or holds a value of another type.                                 *)
(***************************************************************************)
(***************************************************************************)
MaxConfigInteger == 1000    \* the largest integer of a configuration file

ConfigIntegers ==
    {-MaxConfigInteger, -1, 0, 1, 2, 5, 6, 10, 11, MaxConfigInteger}
BooleanItems ==
    [kind : {"boolean"}, value : BOOLEAN]
        \cup {[kind |-> k, value |-> FALSE] : k \in {"missing", "other"}}
IntegerItems ==
    [kind : {"integer"}, value : ConfigIntegers]
        \cup {[kind |-> k, value |-> 0] : k \in {"missing", "other"}}

\* settings.get(key).unwrap_or(default).as_bool() / .as_integer(): the
\* value, the default of a missing key, or None for another type
ItemValue(item, default) ==
    IF item.kind = "missing" THEN <<default>>
    ELSE IF item.kind = "other" THEN <<>>
    ELSE <<item.value>>

ClampAbove(v, lo, hi) == IF v > hi THEN hi ELSE v
\* .max(lo).min(hi)
Clamp(v, lo, hi) ==
    LET raised == IF v < lo THEN lo ELSE v
    IN  IF raised > hi THEN hi ELSE raised

SettingsError == [ok |-> FALSE]

\* Config::get_settings (config.rs:566-604) on the [settings] table, None
\* when the document has no such table
GetSettings(settings_item) ==
    IF settings_item = <<>> THEN SettingsError
    ELSE LET settings == settings_item[1]
             apply_on_boot == ItemValue(settings.apply_on_boot, TRUE)
             no_init == ItemValue(settings.no_init, FALSE)
             handle_dynamic_temps ==
                 ItemValue(settings.handle_dynamic_temps, FALSE)
             startup_delay == ItemValue(settings.startup_delay, 2)
             smoothing_level == ItemValue(settings.smoothing_level, 0)
             thinkpad_full_speed ==
                 ItemValue(settings.thinkpad_full_speed, FALSE)
         IN  IF <<>> \in {apply_on_boot, no_init, handle_dynamic_temps,
                          startup_delay, smoothing_level, thinkpad_full_speed}
             THEN SettingsError
             ELSE [ok |-> TRUE,
                   apply_on_boot |-> apply_on_boot[1],
                   no_init |-> no_init[1],
                   handle_dynamic_temps |-> handle_dynamic_temps[1],
                   startup_delay |-> Clamp(startup_delay[1], 0, 10),
                   smoothing_level |-> Clamp(smoothing_level[1], 0, 5),
                   thinkpad_full_speed |-> thinkpad_full_speed[1]]

SettingsTables ==
    [apply_on_boot : BooleanItems, no_init : BooleanItems,
     handle_dynamic_temps : BooleanItems, startup_delay : IntegerItems,
     smoothing_level : IntegerItems, thinkpad_full_speed : BooleanItems]

SettingsInit ==
    /\ MainInit("settings")
    /\ AlertIdle
    /\ ModeIdle
    /\ document \in {<<>>} \cup {<<t>> : t \in SettingsTables}
    /\ loaded = <<>>
    /\ AlignIdle
    /\ HwIdle

\* a call of get_settings
ReadSettings ==
    /\ loaded' = <<GetSettings(document)>>
    /\ UNCHANGED <<document, baseVars, alignVars, hwVars, alertAll, modeAll>>

SettingsNext == ReadSettings

SpecSettings == SettingsInit /\ [][SettingsNext]_vars

\* C23: get_settings returns startup_delay within 0..=10 s and
\* smoothing_level within 0..=5 for every stored integer (lower values give
\* 0, higher values give 10 resp. 5), and for a missing key the defaults
\* apply_on_boot=true, no_init=false, handle_dynamic_temps=false,
\* startup_delay=2 s, smoothing_level=0, thinkpad_full_speed=false.
THM_C23 ==
    (loaded # <<>> /\ document # <<>>) =>
        LET t == document[1]
            r == loaded[1]
            typed == \A k \in DOMAIN t : t[k].kind # "other"
            missing(k) == t[k].kind = "missing"
            stored(k) == t[k].kind = "integer"
        IN  /\ r.ok <=> typed
            /\ r.ok =>
                /\ r.startup_delay \in 0..10
                /\ r.smoothing_level \in 0..5
                /\ stored("startup_delay") =>
                     /\ t.startup_delay.value < 0 => r.startup_delay = 0
                     /\ t.startup_delay.value > 10 => r.startup_delay = 10
                     /\ t.startup_delay.value \in 0..10 =>
                          r.startup_delay = t.startup_delay.value
                /\ stored("smoothing_level") =>
                     /\ t.smoothing_level.value < 0 => r.smoothing_level = 0
                     /\ t.smoothing_level.value > 5 => r.smoothing_level = 5
                     /\ t.smoothing_level.value \in 0..5 =>
                          r.smoothing_level = t.smoothing_level.value
                /\ missing("apply_on_boot") => r.apply_on_boot = TRUE
                /\ missing("no_init") => r.no_init = FALSE
                /\ missing("handle_dynamic_temps") => r.handle_dynamic_temps = FALSE
                /\ missing("startup_delay") => r.startup_delay = 2
                /\ missing("smoothing_level") => r.smoothing_level = 0
                /\ missing("thinkpad_full_speed") => r.thinkpad_full_speed = FALSE

\* a table with a negative startup_delay, a smoothing_level above 5 and no
\* other key was read
WIT_C23 ==
    /\ loaded # <<>>
    /\ document # <<>>
    /\ document[1].startup_delay = [kind |-> "integer", value |-> -1]
    /\ document[1].smoothing_level = [kind |-> "integer", value |-> 6]
    /\ \A k \in DOMAIN document[1] \ {"startup_delay", "smoothing_level"} :
         document[1][k].kind = "missing"
    /\ loaded[1].ok
    /\ loaded[1].startup_delay = 0
    /\ loaded[1].smoothing_level = 5
    /\ loaded[1].apply_on_boot


(***************************************************************************)
(***************************************************************************)
(* The device settings of the configuration (config.rs:147-339): any       *)
(* sequence of set_device_setting calls on the channels of a device,       *)
(* starting from a configuration without device settings.                  *)
(***************************************************************************)
(***************************************************************************)
SpeedProfile == <<<<20, 30>>, <<60, FixedDuty>>>>
TempSource == [temp_name |-> "temp1", device_uid |-> 2]

\* the Settings a caller can pass: every field is Some or None
ConfigSettings ==
    [speed_fixed : {<<>>, <<FixedDuty>>},
     speed_profile : {<<>>, <<SpeedProfile>>},
     temp_source : {<<>>, <<TempSource>>},
     pwm_mode : {<<>>, <<1>>},
     reset_to_default : {<<>>, <<TRUE>>, <<FALSE>>},
     profile_uid : {<<>>, <<"1">>}]

ConfigInit ==
    /\ MainInit("config")
    /\ AlertIdle
    /\ CfgIdle
    /\ modes = <<>>
    /\ mode_order = <<>>
    /\ active_modes = {}
    /\ device_settings = [d \in all_devices |-> <<>>]
    /\ lastCall = NoCall
    /\ repeat = FALSE
    /\ AlignIdle
    /\ HwIdle

\* a call of set_device_setting (config.rs:147-175); the call is noted as
\* the reset or the change of the channel
SetDeviceSettingCall(d, c, setting) ==
    /\ device_settings' =
        [device_settings EXCEPT ![d] = SetDeviceSetting(@, c, setting)]
    /\ lastCall' =
        [NoCall EXCEPT
            !.op = "set_device_setting",
            !.ops = {<<d, c, IF setting.reset_to_default = <<TRUE>>
                             THEN "reset" ELSE "apply">>}]
    /\ repeat' = FALSE
    /\ UNCHANGED <<modes, mode_order, active_modes, mainVars, alertAll>>

ConfigNext ==
    \E d \in all_devices, c \in Channels, setting \in ConfigSettings :
        SetDeviceSettingCall(d, c, setting)

SpecConfig == ConfigInit /\ [][ConfigNext]_vars

\* C24: after set_device_setting(device, s) with s.reset_to_default = true,
\* get_device_settings(device) has no Setting for the channel of s, whatever
\* was stored before and whatever other fields s carries, and the stored
\* settings of every other channel of the device are unchanged.
THM_C24 ==
    [][\A d \in all_devices, c \in Channels, setting \in ConfigSettings :
          (/\ setting.reset_to_default = <<TRUE>>
           /\ SetDeviceSettingCall(d, c, setting)) =>
             LET before == GetDeviceSettings(device_settings, d)
                 after == GetDeviceSettings(device_settings', d)
             IN  /\ c \notin DOMAIN after
                 /\ DOMAIN after = DOMAIN before \ {c}
                 /\ \A other \in DOMAIN after : after[other] = before[other]]_vars

\* both channels held a setting and one of them was reset
WIT_C24 ==
    \E d \in all_devices :
         /\ lastCall.ops = {<<d, "fan", "reset">>}
         /\ DOMAIN device_settings[d] = {"pump"}
         /\ device_settings[d]["pump"].speed_profile # <<>>
         /\ device_settings[d]["pump"].pwm_mode # <<>>

\* C25: after any sequence of set_device_setting calls the stored entry of
\* a channel carries at most one of speed_fixed, speed_profile and
\* profile_uid.
CEX_C25 ==
    \A d \in DOMAIN device_settings : \A c \in DOMAIN device_settings[d] :
        LET stored == device_settings[d][c]
        IN  Cardinality({k \in {"speed_fixed", "speed_profile", "profile_uid"} :
                            stored[k] # <<>>}) <= 1

\* C26: after any sequence of set_device_setting calls every stored Setting
\* that has a speed_profile has a temp_source.
CEX_C26 ==
    \A d \in DOMAIN device_settings : \A c \in DOMAIN device_settings[d] :
        device_settings[d][c].speed_profile # <<>> =>
            device_settings[d][c].temp_source # <<>>


(***************************************************************************)
(***************************************************************************)
(* Loading the configuration file (config.rs:48-96): the duties of a       *)
(* device setting and of a Profile, as load_config_file reads them with    *)
(* get_all_devices_settings and get_profiles.  A stored speed_profile has  *)
(* one pair; the temperature of the pair is left out.                      *)
(***************************************************************************)
(***************************************************************************)
\* the largest duty, as the messages of try_into() name it (config.rs:369, 400)
MaxDuty == 100

\* u8::MAX, the bound of try_into() (config.rs:369, 400)
U8Max == 255

DutyIntegers == {-1, 0, MaxDuty, MaxDuty + 1, U8Max, U8Max + 1}
DutyItems ==
    [kind : {"integer"}, value : DutyIntegers]
        \cup {[kind |-> k, value |-> 0] : k \in {"missing", "other"}}

\* i64 to u8 with try_into().ok()
TryIntoU8(v) == IF v \in 0..U8Max THEN <<v>> ELSE <<>>

LoadError == [ok |-> FALSE]

\* get_speed_fixed (config.rs:365-373) and the duty of the pair in
\* get_speed_profile (config.rs:375-408): Ok(None) for a missing key, Err
\* for another type or a value that is no u8
GetDuty(item) ==
    IF item.kind = "missing" THEN [ok |-> TRUE, value |-> <<>>]
    ELSE IF item.kind = "other" THEN LoadError
    ELSE IF TryIntoU8(item.value) = <<>> THEN LoadError
    ELSE [ok |-> TRUE, value |-> TryIntoU8(item.value)]

\* one channel table or Profile table (config.rs:318-319, 690-691)
GetTable(table) ==
    LET speed_fixed == GetDuty(table.speed_fixed)
        speed_profile == GetDuty(table.speed_profile)
    IN  IF ~speed_fixed.ok \/ ~speed_profile.ok THEN LoadError
        ELSE [ok |-> TRUE, speed_fixed |-> speed_fixed.value,
              speed_profile |-> speed_profile.value]

\* load_config_file (config.rs:48-96): the device settings are read, then
\* the Profiles; the first error is returned
LoadConfigFile(doc) ==
    LET setting == GetTable(doc.setting)
        profile == GetTable(doc.profile)
    IN  IF ~setting.ok \/ ~profile.ok THEN LoadError
        ELSE [ok |-> TRUE, setting |-> setting, profile |-> profile]

DutyTables == [speed_fixed : DutyItems, speed_profile : DutyItems]

LoadInit ==
    /\ MainInit("load")
    /\ AlertIdle
    /\ ModeIdle
    /\ document \in [setting : DutyTables, profile : DutyTables]
    /\ loaded = <<>>
    /\ AlignIdle
    /\ HwIdle

\* the daemon starts and loads the file
Load ==
    /\ loaded = <<>>
    /\ loaded' = <<LoadConfigFile(document)>>
    /\ UNCHANGED <<document, baseVars, alignVars, hwVars, alertAll, modeAll>>

LoadNext == Load

SpecLoad == LoadInit /\ [][LoadNext]_vars

\* the duties a loaded configuration carries
LoadedDuties ==
    LET r == loaded[1]
    IN  UNION {{t.speed_fixed[i] : i \in DOMAIN t.speed_fixed}
                   \cup {t.speed_profile[i] : i \in DOMAIN t.speed_profile} :
               t \in {r.setting, r.profile}}

\* C27: loading fails when a stored speed_fixed or a duty of a stored
\* speed_profile pair, of a device setting or of a Profile, is outside
\* 0..=100: no loaded Setting or Profile carries a duty above 100.
CEX_C27 ==
    (loaded # <<>> /\ loaded[1].ok) => \A duty \in LoadedDuties : duty <= MaxDuty


(***************************************************************************)
(***************************************************************************)
(* Creating and updating Profiles through the API (api/profiles.rs:51-91). *)
(* The handlers validate the Profile and pass it on; it is stored under    *)
(* the rules of Config::set_profile and Config::update_profile             *)
(* (config.rs:742-773).  A Profile is its UID, its type and its member     *)
(* UIDs.                                                                   *)
(***************************************************************************)
(***************************************************************************)
MaxProfiles == 3    \* Profile UIDs

StoredProfileUids == 1..MaxProfiles
Profiles ==
    [uid : StoredProfileUids, p_type : {"Graph", "Mix"},
     member_profile_uids : SUBSET StoredProfileUids]

\* validate_profile (api/profiles.rs:83-91) without the check of the name
ValidateProfile(profile) ==
    ~(profile.p_type = "Mix" /\ profile.member_profile_uids = {})

ProfilesInit ==
    /\ MainInit("profiles")
    /\ AlertIdle
    /\ ModeIdle
    /\ document = <<>>
    /\ loaded = <<>>
    /\ AlignIdle
    /\ HwIdle

\* create (api/profiles.rs:51-59); the Profile is refused when its UID is
\* stored (config.rs:748-753)
ProfileCreate(profile) ==
    LET ok == ValidateProfile(profile) /\ profile.uid \notin DOMAIN document
    IN  /\ document' = IF ok THEN With(document, profile.uid, profile)
                       ELSE document
        /\ loaded' = <<[op |-> "create", uid |-> profile.uid, ok |-> ok]>>
        /\ UNCHANGED <<baseVars, alignVars, hwVars, alertAll, modeAll>>

\* update (api/profiles.rs:61-69); the Profile is refused when its UID is
\* not stored (config.rs:764-771)
ProfileUpdate(profile) ==
    LET ok == ValidateProfile(profile) /\ profile.uid \in DOMAIN document
    IN  /\ document' = IF ok THEN With(document, profile.uid, profile)
                       ELSE document
        /\ loaded' = <<[op |-> "update", uid |-> profile.uid, ok |-> ok]>>
        /\ UNCHANGED <<baseVars, alignVars, hwVars, alertAll, modeAll>>

ProfilesNext ==
    \/ \E profile \in Profiles : ProfileCreate(profile)
    \/ \E profile \in Profiles : ProfileUpdate(profile)

SpecProfiles == ProfilesInit /\ [][ProfilesNext]_vars

\* the stored Profiles a stored Mix Profile names as members
MembersOf(uid) ==
    IF uid \in DOMAIN document /\ document[uid].p_type = "Mix"
    THEN document[uid].member_profile_uids \cap DOMAIN document
    ELSE {}

\* the Profiles reached from the set in at most n steps along the members
RECURSIVE ReachedFrom(_, _)
ReachedFrom(uids, n) ==
    IF n = 0 THEN uids
    ELSE ReachedFrom(uids \cup UNION {MembersOf(uid) : uid \in uids}, n - 1)

\* C28: after any sequence of successful profile create and update calls
\* the member graph of the stored Mix Profiles is acyclic: no Mix Profile
\* references itself directly or through its members.
CEX_C28 ==
    \A uid \in DOMAIN document :
        uid \notin ReachedFrom(MembersOf(uid), MaxProfiles)


(***************************************************************************)
(***************************************************************************)
(* The alignment of the main loop with the wall clock at its start         *)
(* (main_loop.rs:99-106).                                                  *)
(***************************************************************************)
(***************************************************************************)
FULL_SECOND_MS == 1000

MaxClockSeconds == 3    \* the wall clock at the call is below this

WholeMillis(t) == t
\* Duration::subsec_millis: the milliseconds past the last full second
SubsecMillis(t) == t % 1000

\* the wait computed at main_loop.rs:100-104; current_millis is below 1000,
\* so the u64 subtraction does not wrap
WaitDuration(t) == FULL_SECOND_MS - SubsecMillis(t)

AlignInit ==
    /\ MainInit("align")
    /\ AlertIdle
    /\ ModeIdle
    /\ CfgIdle
    /\ HwIdle
    /\ clock \in 0..(MsOfSecs(MaxClockSeconds) - 1)
    /\ wait_duration = <<>>

\* align_loop_timing_with_clock (main_loop.rs:99-106)
AlignLoopTimingWithClock ==
    /\ wait_duration = <<>>
    /\ wait_duration' = <<WaitDuration(clock)>>
    /\ UNCHANGED <<clock, baseVars, cfgVars, hwVars, alertAll, modeAll>>

AlignNext == AlignLoopTimingWithClock

SpecAlign == AlignInit /\ [][AlignNext]_vars

\* C29: for every sub-second position m in 0..=999 ms of the wall clock at
\* the call, align_loop_timing_with_clock waits 1000 - m ms: the wait is
\* between 1 and 1000 ms and m plus the wait is a multiple of 1000, so the
\* wait ends on a full second of the wall clock.
THM_C29 ==
    wait_duration # <<>> =>
        \E m \in 0..999 :
            /\ \E secs \in 0..MaxClockSeconds : clock = MsOfSecs(secs) + m
            /\ wait_duration[1] = 1000 - m
            /\ wait_duration[1] \in 1..1000
            /\ (m + wait_duration[1]) % 1000 = 0
            /\ (clock + wait_duration[1]) % 1000 = 0

\* the call at 1 ms before a full second, after the first second, waited 1 ms
WIT_C29 ==
    /\ wait_duration = <<1>>
    /\ clock = MsOfSecs(2) - 1


(***************************************************************************)
(* Further claims about the ModeController                                 *)
(***************************************************************************)
\* the Mode holds for every present device what is saved for it, a missing
\* channel and a missing device entry standing for the Default Profile
MatchesSavedNoneAsDefault(mode) ==
    \A d \in all_devices :
        LET saved == device_settings[d]
            entry == IF d \in DOMAIN mode THEN mode[d] ELSE <<>>
        IN  /\ \A c \in DOMAIN entry :
                 \/ c \in DOMAIN saved /\ entry[c] = saved[c]
                 \/ c \notin DOMAIN saved /\ ReferencesDefault(entry[c])
            /\ \A c \in DOMAIN saved :
                 \/ c \in DOMAIN entry /\ saved[c] = entry[c]
                 \/ c \notin DOMAIN entry /\ ReferencesDefault(saved[c])

\* C33: a saved setting that references the Default Profile never
\* disqualifies a Mode in the active-mode detection, neither when the Mode
\* has an entry for the device without that channel nor when the Mode has no
\* entry for the device at all.
CEX_C33 ==
    lastCall.op = "determine" =>
        \A uid \in DOMAIN modes :
            MatchesSavedNoneAsDefault(modes[uid]) => uid \in active_modes

\* the saved setting of the channel, None when there is none
SavedSetting(saved, d, c) ==
    IF c \in DOMAIN saved[d] THEN <<saved[d][c]>> ELSE <<>>

\* C34: during activate_mode the saved setting of a channel is changed only
\* if the repository operation issued for the channel succeeded: when the
\* apply of a Mode's setting fails, and likewise when the reset of a
\* channel fails, the saved setting of the channel stays what it was.
CEX_C34 ==
    [][\A uid \in ModeUids, saved_ok \in BOOLEAN :
         \A failed \in SUBSET SpawnedOperations(uid) :
            (lastCall'.op = "activate" /\ ActivateMode(uid, failed, saved_ok)) =>
                \A op \in failed :
                    SavedSetting(device_settings', op[1], op[2])
                        = SavedSetting(device_settings, op[1], op[2])]_vars

\* C35: after any sequence of create_mode, duplicate_mode, update_mode,
\* update_mode_with_current_settings, update_mode_order and delete_mode
\* calls the order holds every stored Mode UID exactly once and no other
\* UID.
CEX_C35 ==
    /\ \A uid \in DOMAIN modes : Occurrences(mode_order, uid) = 1
    /\ \A i \in 1..Len(mode_order) : mode_order[i] \in DOMAIN modes


(***************************************************************************)
(* Further claims about the main loop and the CpuRepo                      *)
(***************************************************************************)
\* C36: at any moment at most one preload task per repository is running:
\* a tick starts no preload_statuses call on a repository whose preload of
\* an earlier tick has not finished.
CEX_C36 ==
    \A r \in Repos : oldPre[r] + (IF curPre[r] THEN 1 ELSE 0) <= 1

(***************************************************************************)
(* The CpuRepo of coolercontrold: initialize_devices, preload_statuses and *)
(* update_statuses on the devices and the map of preloaded statuses        *)
(* (repositories/cpu_repo.rs)                                              *)
(***************************************************************************)

\* the load and the temperature a request_status may read: 0..MaxCpuReading
MaxCpuReading == 2
\* the type_index initialize_devices gives the one CPU device
CpuTypeIndex == 1

\* what request_status returns on success: (channels, temps)
CpuStatuses == (0..MaxCpuReading) \X (0..MaxCpuReading)
\* Result of request_status: <<>> is Err, <<status>> is Ok(status)
CpuResults == {<<>>} \cup {<<st>> : st \in CpuStatuses}

\* a failed request that forgets the stored status of the device
PreloadedForgotten(map, device_id, result) ==
    IF result = <<>> THEN Without(map, device_id)
    ELSE With(map, device_id, result[1])

\* the preloaded statuses after one future of preload_statuses
\* (cpu_repo.rs:217-225): an Err is logged and the future returns, an Ok
\* is inserted under the type_index of the device
PreloadedAfter(map, device_id, result) ==
    IF result = <<>> THEN map ELSE With(map, device_id, result[1])

\* the futures of preload_statuses for the devices i..Len(cpu_devices)
RECURSIVE PreloadAll(_, _, _)
PreloadAll(map, i, results) ==
    IF i > Len(cpu_devices) THEN map
    ELSE PreloadAll(PreloadedAfter(map, cpu_devices[i].type_index,
                                   results[i]),
                    i + 1, results)

CpuInit ==
    /\ MainInit("cpu")
    /\ AlertIdle
    /\ ModeIdle
    /\ CfgIdle
    /\ AlignIdle
    /\ GpuIdle
    /\ StatusIdle
    /\ cpu_devices = <<>>
    /\ cpu_preloaded_statuses = <<>>
    /\ cpu_call = [op |-> "new", failed |-> {}, published |-> {}]

\* CpuRepo::initialize_devices (cpu_repo.rs:161-206): `?` returns the Err
\* of request_status before anything is stored
CpuInitializeDevices(result) ==
    /\ cpu_call.op = "new"
    /\ IF result = <<>>
       THEN /\ cpu_call' = [op |-> "initialize_devices",
                            failed |-> {CpuTypeIndex}, published |-> {}]
            /\ UNCHANGED <<cpu_devices, cpu_preloaded_statuses>>
       ELSE /\ cpu_preloaded_statuses' =
                  With(cpu_preloaded_statuses, CpuTypeIndex, result[1])
            /\ cpu_devices' =
                  Append(cpu_devices, [type_index |-> CpuTypeIndex,
                                       status |-> result[1]])
            /\ cpu_call' = [op |-> "initialize_devices",
                            failed |-> {}, published |-> {}]
    /\ UNCHANGED <<baseVars, cfgVars, alignVars, gpuVars, statusVars,
                   alertAll, modeAll>>

\* CpuRepo::preload_statuses (cpu_repo.rs:212-233)
CpuPreloadStatuses(results) ==
    /\ cpu_call.op # "new"
    /\ cpu_preloaded_statuses' = PreloadAll(cpu_preloaded_statuses, 1, results)
    /\ cpu_call' = [op |-> "preload_statuses",
                    failed |-> {cpu_devices[i].type_index :
                                  i \in {j \in DOMAIN cpu_devices :
                                           results[j] = <<>>}},
                    published |-> {}]
    /\ UNCHANGED <<cpu_devices, baseVars, cfgVars, alignVars, gpuVars,
                   statusVars, alertAll, modeAll>>

\* CpuRepo::update_statuses (cpu_repo.rs:235-259): a device without a
\* preloaded status is logged and skipped
CpuUpdateStatuses ==
    /\ cpu_call.op # "new"
    /\ cpu_devices' =
          [i \in DOMAIN cpu_devices |->
              IF cpu_devices[i].type_index \in DOMAIN cpu_preloaded_statuses
              THEN [cpu_devices[i] EXCEPT
                      !.status = cpu_preloaded_statuses[
                                     cpu_devices[i].type_index]]
              ELSE cpu_devices[i]]
    /\ cpu_call' = [op |-> "update_statuses", failed |-> {},
                    published |-> {cpu_devices[i].type_index :
                                     i \in {j \in DOMAIN cpu_devices :
                                              cpu_devices[j].type_index
                                                \in DOMAIN
                                                  cpu_preloaded_statuses}}]
    /\ UNCHANGED <<cpu_preloaded_statuses, baseVars, cfgVars, alignVars,
                   gpuVars, statusVars, alertAll, modeAll>>

CpuNext ==
    \/ \E result \in CpuResults : CpuInitializeDevices(result)
    \/ \E results \in [DOMAIN cpu_devices -> CpuResults] :
          CpuPreloadStatuses(results)
    \/ CpuUpdateStatuses

SpecCpu == CpuInit /\ [][CpuNext]_vars

CpuTypeIndexes == {cpu_devices[i].type_index : i \in DOMAIN cpu_devices}

\* C40: a failed preload changes nothing: when request_status fails in
\* preload_statuses the status preloaded before for the device is kept;
\* every device has a preloaded status from initialize_devices on, so
\* every update_statuses call publishes one Status for every device of the
\* repository, the preloaded one.
THM_C40 ==
    [][/\ cpu_call'.op = "preload_statuses" =>
             \A ti \in cpu_call'.failed :
                /\ ti \in DOMAIN cpu_preloaded_statuses
                /\ ti \in DOMAIN cpu_preloaded_statuses'
                /\ cpu_preloaded_statuses'[ti] = cpu_preloaded_statuses[ti]
       /\ cpu_call'.op = "update_statuses" =>
             /\ cpu_call'.published = CpuTypeIndexes'
             /\ \A i \in DOMAIN cpu_devices' :
                   cpu_devices'[i].status =
                      cpu_preloaded_statuses[cpu_devices'[i].type_index]
      ]_vars

\* a preload has failed for the device while the map held a status that an
\* earlier preload had stored and update_statuses had not yet published
WIT_C40 ==
    /\ cpu_call.op = "preload_statuses"
    /\ cpu_call.failed = {CpuTypeIndex}
    /\ Len(cpu_devices) = 1
    /\ cpu_preloaded_statuses[CpuTypeIndex] = <<MaxCpuReading, 0>>
    /\ cpu_devices[1].status = <<0, MaxCpuReading>>

(***************************************************************************)
(* The GpuRepo of coolercontrol: initialize_devices and update_statuses on *)
(* the devices of the AMD and Nvidia GPUs (repositories/gpu_repo.rs)       *)
(***************************************************************************)

\* GPUs of one type the machine may have: 0..MaxGpus
MaxGpus == 2
\* temperatures a GPU may report: 0..MaxGpuReading
MaxGpuReading == 2

GpuCounts == 0..MaxGpus
GpuReadings == 0..MaxGpuReading

\* the GPU a device or a status belongs to: its type and its position in
\* the output of its driver (nvidia-smi lines, amdgpu hwmon directories)
GpuName(type, index) == <<type, index>>

\* the sequence of (Status, name) pairs request_nvidia_statuses builds from
\* the lines of nvidia-smi, in their order (gpu_repo.rs:94-152)
RequestNvidiaStatuses(count, readings) ==
    [i \in 1..count |-> [name |-> GpuName("Nvidia", i - 1),
                         temp |-> readings[i]]]

\* GpuRepo::request_statuses (gpu_repo.rs:84-92)
RequestStatuses(readings) ==
    IF gpu_type_count["Nvidia"] > 0
    THEN RequestNvidiaStatuses(gpu_type_count["Nvidia"], readings)
    ELSE <<>>

\* starting_nvidia_index of initialize_devices (gpu_repo.rs:250-254)
StartingNvidiaIndex(multiple, amd) == IF multiple THEN amd + 1 ELSE 1

\* the devices after the inserts for the statuses i..Len(statuses), each
\* under the id `id_of(index)`; index counts from 0 as enumerate() does
RECURSIVE InsertDevices(_, _, _, _)
InsertDevices(devices, statuses, i, start) ==
    IF i > Len(statuses) THEN devices
    ELSE InsertDevices(
            With(devices, (i - 1) + start,
                 [name |-> statuses[i].name, type_id |-> (i - 1) + start,
                  status |-> statuses[i]]),
            statuses, i + 1, start)

\* the statuses of the AMD devices init_amd_devices found, in their order
AmdStatuses(count, readings) ==
    [i \in 1..count |-> [name |-> GpuName("AMD", i - 1),
                         temp |-> readings[i]]]

GpuInit ==
    /\ MainInit("gpu")
    /\ AlertIdle
    /\ ModeIdle
    /\ CfgIdle
    /\ AlignIdle
    /\ CpuIdle
    /\ StatusIdle
    /\ gpu_devices = <<>>
    /\ gpu_type_count = <<>>
    /\ has_multiple_gpus = FALSE

\* GpuRepo::initialize_devices (gpu_repo.rs:201-286) with detect_gpu_types
\* (70-82): the AMD devices get the ids 1.., the Nvidia devices the ids
\* from the starting index on
GpuInitializeDevices(amd, nvidia, amd_readings, nvidia_readings) ==
    /\ gpu_type_count = <<>>
    /\ gpu_type_count' = [t \in {"Nvidia", "AMD"} |->
                             IF t = "Nvidia" THEN nvidia ELSE amd]
    /\ has_multiple_gpus' = (nvidia + amd > 1)
    /\ gpu_devices' =
          InsertDevices(
             InsertDevices(gpu_devices, AmdStatuses(amd, amd_readings), 1, 1),
             IF nvidia > 0
             THEN RequestNvidiaStatuses(nvidia, nvidia_readings) ELSE <<>>,
             1, StartingNvidiaIndex(nvidia + amd > 1, amd))
    /\ UNCHANGED <<baseVars, cfgVars, alignVars, cpuVars, statusVars,
                   alertAll, modeAll>>

\* the devices after the loop of update_statuses over the statuses
\* i..Len(statuses): the status at position index goes to devices[index + 1]
\* when there is such a device
RECURSIVE SetStatuses(_, _, _)
SetStatuses(devices, statuses, i) ==
    IF i > Len(statuses) THEN devices
    ELSE SetStatuses(
            IF i \in DOMAIN devices
            THEN [devices EXCEPT ![i].status = statuses[i]]
            ELSE devices,
            statuses, i + 1)

\* GpuRepo::update_statuses (gpu_repo.rs:293-309)
GpuUpdateStatuses(readings) ==
    /\ gpu_type_count # <<>>
    /\ gpu_devices' = SetStatuses(gpu_devices, RequestStatuses(readings), 1)
    /\ UNCHANGED <<gpu_type_count, has_multiple_gpus, baseVars, cfgVars,
                   alignVars, cpuVars, statusVars, alertAll, modeAll>>

GpuNext ==
    \/ \E amd \in GpuCounts, nvidia \in GpuCounts :
          \E amd_readings \in [1..amd -> GpuReadings],
             nvidia_readings \in [1..nvidia -> GpuReadings] :
             GpuInitializeDevices(amd, nvidia, amd_readings, nvidia_readings)
    \/ /\ gpu_type_count # <<>>
       /\ \E readings \in [1..gpu_type_count["Nvidia"] -> GpuReadings] :
             GpuUpdateStatuses(readings)

SpecGpu == GpuInit /\ [][GpuNext]_vars

\* C39: whatever the numbers of AMD and Nvidia GPUs, every device holds a
\* status of the GPU it was created for (update_statuses never stores the
\* status of one GPU in the device of another), and the ids given at
\* initialization are unique: there is one device for every GPU.
CEX_C39 ==
    gpu_type_count # <<>> =>
       /\ \A id \in DOMAIN gpu_devices :
             gpu_devices[id].status.name = gpu_devices[id].name
       /\ Cardinality(DOMAIN gpu_devices) =
             gpu_type_count["Nvidia"] + gpu_type_count["AMD"]

(***************************************************************************)
(* The arrays of Profile and Function tables in the configuration document *)
(* and the calls that read and change them (config.rs:668-1014).  Here     *)
(* document is [profiles, functions]; each is <<>> while the document has  *)
(* no such item and <<array>> when it has one, array being the sequence of *)
(* its tables; a table is a function from its keys to their values.        *)
(***************************************************************************)

\* tables the two arrays may hold together
MaxEntries == 2

EntryUids == {"0", "1"}
\* Option values of the struct fields that are written only when they are Some
Options(v) == {<<>>, <<v>>}

\* Profile::default and Function::default (setting.rs:158-170, 201-212)
DefaultProfile ==
    [uid |-> "0", name |-> "Default Profile", p_type |-> "Default",
     speed_fixed |-> <<>>, speed_profile |-> <<>>, temp_source |-> <<>>,
     function_uid |-> "0"]
DefaultFunction ==
    [uid |-> "0", name |-> "Identity", f_type |-> "Identity",
     response_delay |-> <<>>, deviance |-> <<>>, sample_window |-> <<>>]

\* the Profile and Function values the calls are made with
ProfileInputs ==
    [uid : EntryUids, name : {"profile"}, p_type : {"Graph"},
     speed_fixed : Options(50),
     speed_profile : Options(<<<<20, 30>>, <<60, 100>>>>),
     temp_source : Options([temp_name |-> "temp1", device_uid |-> "dev1"]),
     function_uid : {"0"}]
FunctionInputs ==
    [uid : EntryUids, name : {"function"}, f_type : {"Standard"},
     response_delay : Options(1), deviance : Options(2),
     sample_window : Options(8)]

\* table[key] = value when the Option is Some, the table as it is otherwise
WithSome(table, key, option) ==
    IF option # <<>> THEN With(table, key, option[1]) ELSE table

\* Config::add_profile_properties_to_profile_table (config.rs:810-838)
AddProfilePropertiesToProfileTable(profile, profile_table) ==
    With(WithSome(WithSome(WithSome(
            With(With(With(profile_table, "uid", profile.uid),
                      "name", profile.name),
                 "p_type", profile.p_type),
            "speed_fixed", profile.speed_fixed),
            "speed_profile", profile.speed_profile),
            "temp_source", profile.temp_source),
         "function_uid", profile.function_uid)

\* Config::create_profile_table_from (config.rs:804-808)
CreateProfileTableFrom(profile) ==
    AddProfilePropertiesToProfileTable(profile, <<>>)

\* Config::add_function_properties_to_function_table (config.rs:995-1014)
AddFunctionPropertiesToFunctionTable(function, function_table) ==
    WithSome(WithSome(WithSome(
        With(With(With(function_table, "uid", function.uid),
                  "name", function.name),
             "f_type", function.f_type),
        "response_delay", function.response_delay),
        "deviance", function.deviance),
        "sample_window", function.sample_window)

\* the Option a get_* helper reads from a table: Some when the key is there
GetOption(table, key) ==
    IF key \in DOMAIN table THEN <<table[key]>> ELSE <<>>

\* Config::get_profiles (config.rs:671-713): the stored tables as Profiles,
\* or the default Profile when the document has no "profiles" item
GetProfiles ==
    IF document.profiles = <<>> THEN <<DefaultProfile>>
    ELSE [i \in DOMAIN document.profiles[1] |->
            LET profile_table == document.profiles[1][i] IN
            [uid |-> profile_table["uid"],
             name |-> profile_table["name"],
             p_type |-> profile_table["p_type"],
             speed_fixed |-> GetOption(profile_table, "speed_fixed"),
             speed_profile |-> GetOption(profile_table, "speed_profile"),
             temp_source |-> GetOption(profile_table, "temp_source"),
             function_uid |-> IF "function_uid" \in DOMAIN profile_table
                              THEN profile_table["function_uid"] ELSE "0"]]

\* Config::get_functions (config.rs:846-898)
GetFunctions ==
    IF document.functions = <<>> THEN <<DefaultFunction>>
    ELSE [i \in DOMAIN document.functions[1] |->
            LET function_table == document.functions[1][i] IN
            [uid |-> function_table["uid"],
             name |-> function_table["name"],
             f_type |-> function_table["f_type"],
             response_delay |-> GetOption(function_table, "response_delay"),
             deviance |-> GetOption(function_table, "deviance"),
             sample_window |-> GetOption(function_table, "sample_window")]]

\* doc[key].or_insert(Item::ArrayOfTables(ArrayOfTables::new())): the array
\* under the key, an empty one put there when the document had none
OrInsert(key) == IF document[key] = <<>> THEN <<>> ELSE document[key][1]

\* the positions of the tables with the uid in an array, in order
PositionsOf(array, uid) == {i \in DOMAIN array : array[i]["uid"] = uid}
FirstPosition(array, uid) ==
    CHOOSE i \in PositionsOf(array, uid) :
        \A j \in PositionsOf(array, uid) : i <= j

\* Config::find_profile_in_array and find_function_in_array
\* (config.rs:792-802, 977-986): <<the first table with the uid>>, <<>> for
\* the Err when there is none
FindInArray(uid, array) ==
    IF PositionsOf(array, uid) = {} THEN <<>>
    ELSE <<array[FirstPosition(array, uid)]>>

\* the array set_profiles_order and set_functions_order build from the
\* requested uids (config.rs:727-731, 912-916)
RECURSIVE Reordered(_, _)
Reordered(ordered, array) ==
    IF ordered = <<>> THEN <<>>
    ELSE <<FindInArray(Head(ordered), array)[1]>>
            \o Reordered(Tail(ordered), array)

EntriesStored ==
    Len(OrInsert("profiles")) + Len(OrInsert("functions"))

ArraysInit ==
    /\ MainInit("arrays")
    /\ AlertIdle
    /\ ModeIdle
    /\ AlignIdle
    /\ HwIdle
    /\ document = [profiles |-> <<>>, functions |-> <<>>]
    /\ loaded = <<>>

ArraysUnchanged == UNCHANGED <<baseVars, alignVars, hwVars, alertAll, modeAll>>

\* Config::set_profile (config.rs:742-756)
SetProfile(profile) ==
    /\ EntriesStored < MaxEntries
    /\ LET profiles_array == OrInsert("profiles") IN
       IF PositionsOf(profiles_array, profile.uid) # {}
       THEN /\ document' = [document EXCEPT !.profiles = <<profiles_array>>]
            /\ loaded' = <<[op |-> "set_profile", ok |-> FALSE]>>
       ELSE /\ document' =
                  [document EXCEPT !.profiles =
                      <<Append(profiles_array,
                               CreateProfileTableFrom(profile))>>]
            /\ loaded' = <<[op |-> "set_profile", ok |-> TRUE]>>
    /\ ArraysUnchanged

\* Config::update_profile (config.rs:758-773)
UpdateProfile(profile) ==
    /\ LET profiles_array == OrInsert("profiles") IN
       IF PositionsOf(profiles_array, profile.uid) = {}
       THEN /\ document' = [document EXCEPT !.profiles = <<profiles_array>>]
            /\ loaded' = <<[op |-> "update_profile", ok |-> FALSE]>>
       ELSE /\ document' =
                  [document EXCEPT !.profiles =
                      <<[profiles_array EXCEPT
                           ![FirstPosition(profiles_array, profile.uid)] =
                              AddProfilePropertiesToProfileTable(profile, @)]>>]
            /\ loaded' = <<[op |-> "update_profile", ok |-> TRUE]>>
    /\ ArraysUnchanged

\* Config::delete_profile (config.rs:775-790)
DeleteProfile(profile_uid) ==
    /\ LET profiles_array == OrInsert("profiles") IN
       IF PositionsOf(profiles_array, profile_uid) = {}
       THEN /\ document' = [document EXCEPT !.profiles = <<profiles_array>>]
            /\ loaded' = <<[op |-> "delete_profile", ok |-> FALSE]>>
       ELSE /\ document' =
                  [document EXCEPT !.profiles =
                      <<RemoveAt(profiles_array,
                                 FirstPosition(profiles_array, profile_uid))>>]
            /\ loaded' = <<[op |-> "delete_profile", ok |-> TRUE]>>
    /\ ArraysUnchanged

\* the outcome of set_profiles_order and set_functions_order on the item
\* under the key: <<>> for the Err when there is no item, when the lengths
\* differ and when a uid is not found, <<the rebuilt array>> otherwise
OrderOutcome(key, ordered) ==
    IF \/ document[key] = <<>>
       \/ Len(ordered) # Len(document[key][1])
       \/ \E i \in DOMAIN ordered :
             FindInArray(ordered[i], document[key][1]) = <<>>
    THEN <<>>
    ELSE <<Reordered(ordered, document[key][1])>>

\* Config::set_profiles_order (config.rs:717-739)
SetProfilesOrder(profiles_ordered) ==
    /\ LET outcome == OrderOutcome("profiles", profiles_ordered) IN
       /\ document' = IF outcome = <<>> THEN document
                      ELSE [document EXCEPT !.profiles = outcome]
       /\ loaded' = <<[op |-> "set_profiles_order", ok |-> outcome # <<>>]>>
    /\ ArraysUnchanged

\* Config::set_functions_order (config.rs:902-924)
SetFunctionsOrder(functions_ordered) ==
    /\ LET outcome == OrderOutcome("functions", functions_ordered) IN
       /\ document' = IF outcome = <<>> THEN document
                      ELSE [document EXCEPT !.functions = outcome]
       /\ loaded' = <<[op |-> "set_functions_order", ok |-> outcome # <<>>]>>
    /\ ArraysUnchanged

\* Config::set_function (config.rs:927-941)
SetFunction(function) ==
    /\ EntriesStored < MaxEntries
    /\ LET functions_array == OrInsert("functions") IN
       IF PositionsOf(functions_array, function.uid) # {}
       THEN /\ document' = [document EXCEPT !.functions = <<functions_array>>]
            /\ loaded' = <<[op |-> "set_function", ok |-> FALSE]>>
       ELSE /\ document' =
                  [document EXCEPT !.functions =
                      <<Append(functions_array,
                               AddFunctionPropertiesToFunctionTable(
                                  function, <<>>))>>]
            /\ loaded' = <<[op |-> "set_function", ok |-> TRUE]>>
    /\ ArraysUnchanged

\* Config::update_function (config.rs:943-958)
UpdateFunction(function) ==
    /\ LET functions_array == OrInsert("functions") IN
       IF PositionsOf(functions_array, function.uid) = {}
       THEN /\ document' = [document EXCEPT !.functions = <<functions_array>>]
            /\ loaded' = <<[op |-> "update_function", ok |-> FALSE]>>
       ELSE /\ document' =
                  [document EXCEPT !.functions =
                      <<[functions_array EXCEPT
                           ![FirstPosition(functions_array, function.uid)] =
                              AddFunctionPropertiesToFunctionTable(
                                 function, @)]>>]
            /\ loaded' = <<[op |-> "update_function", ok |-> TRUE]>>
    /\ ArraysUnchanged

\* Config::delete_function (config.rs:960-975)
DeleteFunction(function_uid) ==
    /\ LET functions_array == OrInsert("functions") IN
       IF PositionsOf(functions_array, function_uid) = {}
       THEN /\ document' = [document EXCEPT !.functions = <<functions_array>>]
            /\ loaded' = <<[op |-> "delete_function", ok |-> FALSE]>>
       ELSE /\ document' =
                  [document EXCEPT !.functions =
                      <<RemoveAt(functions_array,
                                 FirstPosition(functions_array,
                                               function_uid))>>]
            /\ loaded' = <<[op |-> "delete_function", ok |-> TRUE]>>
    /\ ArraysUnchanged

\* the uid lists a set-order call is made with
RECURSIVE UidLists(_, _)
UidLists(uids, n) ==
    IF n = 0 THEN {<<>>}
    ELSE UidLists(uids, n - 1)
            \cup {Append(l, u) : l \in UidLists(uids, n - 1), u \in uids}

ArraysNext ==
    \/ \E profile \in ProfileInputs : SetProfile(profile)
    \/ \E profile \in ProfileInputs : UpdateProfile(profile)
    \/ \E uid \in EntryUids : DeleteProfile(uid)
    \/ \E ordered \in UidLists(EntryUids, MaxEntries) :
          SetProfilesOrder(ordered)
    \/ \E function \in FunctionInputs : SetFunction(function)
    \/ \E function \in FunctionInputs : UpdateFunction(function)
    \/ \E uid \in EntryUids : DeleteFunction(uid)
    \/ \E ordered \in UidLists(EntryUids, MaxEntries) :
          SetFunctionsOrder(ordered)

SpecArrays == ArraysInit /\ [][ArraysNext]_vars

HasUid(entries, uid) == \E i \in DOMAIN entries : entries[i].uid = uid

\* C31: the Default Profile and the Identity Function are always present:
\* after any sequence of set, update, delete and set-order calls
\* get_profiles returns a Profile with uid "0" and get_functions a Function
\* with uid "0".
CEX_C31 ==
    /\ HasUid(GetProfiles, "0")
    /\ HasUid(GetFunctions, "0")

\* the array under the key after the call is the array before it put into
\* the requested order when the call has succeeded, and the array before
\* it when the call has failed
OnlyReordered(key, ordered, ok, after) ==
    IF ok
    THEN /\ document[key] # <<>>
         /\ SameMultiset(after[key][1], document[key][1])
         /\ \A i \in DOMAIN ordered : after[key][1][i]["uid"] = ordered[i]
    ELSE after[key] = document[key]

\* C37: set_profiles_order and set_functions_order only reorder: a call
\* that succeeds leaves a permutation of the tables stored before, each
\* once and as it was, in the requested order; a call that fails leaves the
\* stored array as it was.
CEX_C37 ==
    [][\A ordered \in UidLists(EntryUids, MaxEntries) :
          /\ (loaded'[1].op = "set_profiles_order"
                 /\ SetProfilesOrder(ordered)) =>
                OnlyReordered("profiles", ordered, loaded'[1].ok, document')
          /\ (loaded'[1].op = "set_functions_order"
                 /\ SetFunctionsOrder(ordered)) =>
                OnlyReordered("functions", ordered, loaded'[1].ok, document')
      ]_vars

\* C38: after update_profile(p) has succeeded get_profiles returns for the
\* uid of p a Profile equal to p in every field, the optional fields that
\* the stored Profile had and p has not included, and every other stored
\* Profile as it was.
CEX_C38 ==
    [][\A p \in ProfileInputs :
          (loaded'[1].op = "update_profile" /\ loaded'[1].ok
              /\ UpdateProfile(p)) =>
             LET i == FirstPosition(OrInsert("profiles"), p.uid) IN
             /\ DOMAIN GetProfiles' = DOMAIN GetProfiles
             /\ GetProfiles'[i] = p
             /\ \A j \in DOMAIN GetProfiles \ {i} :
                   GetProfiles'[j] = GetProfiles[j]
      ]_vars

(***************************************************************************)
(* DeviceSupport::get_channel_statuses of coolercontrol                    *)
(* (liquidctl/supported_devices/device_support.rs:152-232).  A key of the  *)
(* status map is the sequence of its words, "fan 1 speed" being            *)
(* <<"fan", "1", "speed">>; a value is its text.                           *)
(***************************************************************************)

\* fan numbers the keys of a status map may name: 1..MaxFans
MaxFans == 2
\* entries a status map may have
MaxKeys == 3

\* str::parse::<u32> on the texts that occur: <<n>> for Ok(n), <<>> for Err
U32Of == ("1" :> 1) @@ ("2" :> 2) @@ ("3" :> 3) @@ ("01" :> 1)
            @@ ("33" :> 33)
parse_u32(value) == IF value \in DOMAIN U32Of THEN <<U32Of[value]>> ELSE <<>>

\* str::parse::<f64> on the texts that occur, the float in tenths
F64Of == ("1" :> 10) @@ ("2" :> 20) @@ ("3" :> 30) @@ ("01" :> 10)
            @@ ("33" :> 330) @@ ("33.3" :> 333)
parse_float(value) == IF value \in DOMAIN F64Of THEN <<F64Of[value]>> ELSE <<>>

\* the length in bytes of the words that occur
WordLen == ("fan" :> 3) @@ ("pump" :> 4) @@ ("speed" :> 5) @@ ("duty" :> 4)
              @@ ("temperature" :> 11) @@ ("1" :> 1) @@ ("2" :> 1)
              @@ ("3" :> 1) @@ ("01" :> 2)
\* a word that \d+ matches as a whole
IsNumber(word) == word \in {"1", "2", "3", "01"}

\* the byte offset of the i-th word of a key, words being separated by one
\* space
RECURSIVE OffsetOf(_, _)
OffsetOf(name, i) ==
    IF i = 1 THEN 0 ELSE OffsetOf(name, i - 1) + WordLen[name[i - 1]] + 1

\* NUMBER_PATTERN.find_at(name, start): <<the first number at or after the
\* byte offset>>, <<>> when there is none.  Every key here begins with a
\* word, so no number lies across the offset.
FindAt(name, start) ==
    LET found == {i \in DOMAIN name :
                     IsNumber(name[i]) /\ OffsetOf(name, i) >= start} IN
    IF found = {} THEN <<>>
    ELSE <<name[CHOOSE i \in found : \A j \in found : i <= j]>>

\* Regex::is_match of a pattern of words, "\\d+" standing for a number,
\* anywhere in the key
IsMatch(pattern, name) ==
    \E start \in 0..(Len(name) - Len(pattern)) :
       \A j \in DOMAIN pattern :
          IF pattern[j] = "\\d+" THEN IsNumber(name[start + j])
          ELSE name[start + j] = pattern[j]

MULTIPLE_FAN_SPEED == <<"fan", "\\d+", "speed">>
MULTIPLE_FAN_SPEED_CORSAIR == <<"fan", "speed", "\\d+">>
MULTIPLE_FAN_DUTY == <<"fan", "\\d+", "duty">>

\* a channel name that forgets the number of the fan
FanNameless(fan_number) == "fan1"

\* format!("fan{}", fan_number)
FanName(fan_number) ==
    CASE fan_number = 1 -> "fan1"
      [] fan_number = 2 -> "fan2"
      [] fan_number = 3 -> "fan3"
      [] OTHER -> "fan33"

\* fans_map.entry(fan_name).or_insert((None, None))
EntryOrInsert(fans_map, fan_name) ==
    IF fan_name \in DOMAIN fans_map THEN fans_map[fan_name]
    ELSE <<<<>>, <<>>>>

\* one iteration of the loop of add_multiple_fans_status over the status
\* map (device_support.rs:210-226)
AddFanEntry(fans_map, name, value) ==
    LET number == FindAt(name, 3) IN
    IF number = <<>> \/ parse_u32(number[1]) = <<>> THEN fans_map
    ELSE LET fan_name == FanName(parse_u32(number[1])[1])
             entry == EntryOrInsert(fans_map, fan_name) IN
         IF \/ IsMatch(MULTIPLE_FAN_SPEED, name)
            \/ IsMatch(MULTIPLE_FAN_SPEED_CORSAIR, name)
         THEN With(fans_map, fan_name, <<parse_u32(value), entry[2]>>)
         ELSE IF IsMatch(MULTIPLE_FAN_DUTY, name)
              THEN With(fans_map, fan_name, <<entry[1], parse_float(value)>>)
              ELSE fans_map

\* the fans_map after the loop has gone through the keys in the order the
\* HashMap yields them
RECURSIVE FansMap(_, _, _)
FansMap(fans_map, map, names) ==
    IF names = <<>> THEN fans_map
    ELSE FansMap(AddFanEntry(fans_map, Head(names), map[Head(names)]),
                 map, Tail(names))

\* DeviceSupport::add_multiple_fans_status (device_support.rs:199-232):
\* the channels it pushes, the fans_map being iterated in the order `fans`
AddMultipleFansStatus(map, names, fans) ==
    LET fans_map == FansMap(<<>>, map, names) IN
    [i \in DOMAIN fans |->
        [name |-> fans[i], rpm |-> fans_map[fans[i]][1],
         duty |-> fans_map[fans[i]][2], pwm_mode |-> <<>>]]

\* add_single_fan_status and add_single_pump_status
\* (device_support.rs:160-192): one channel `name` when the map has a
\* "<name> speed" or a "<name> duty" that parses
AddSingleStatus(map, name) ==
    LET rpm == IF <<name, "speed">> \in DOMAIN map
               THEN parse_u32(map[<<name, "speed">>]) ELSE <<>>
        duty == IF <<name, "duty">> \in DOMAIN map
                THEN parse_float(map[<<name, "duty">>]) ELSE <<>> IN
    IF rpm # <<>> \/ duty # <<>>
    THEN <<[name |-> name, rpm |-> rpm, duty |-> duty, pwm_mode |-> <<>>]>>
    ELSE <<>>

\* the sequences that hold every element of the set once
Orders(S) ==
    {seq \in [1..Cardinality(S) -> S] :
        \A i, j \in 1..Cardinality(S) : seq[i] = seq[j] => i = j}

FanNumbers == 1..MaxFans
NumberWords == {"1", "2", "3", "01"}
\* the words that name a fan number in 1..MaxFans
FanWords == {w \in NumberWords : U32Of[w] \in FanNumbers}
StatusKeys ==
    {<<"fan", w, "speed">> : w \in FanWords}
       \cup {<<"fan", "speed", w>> : w \in FanWords \ {"01"}}
       \cup {<<"fan", w, "duty">> : w \in FanWords \ {"01"}}
       \cup {<<"fan", "speed">>, <<"pump", "duty">>, <<"temperature", "1">>}
StatusValues == {"33", "33.3", "high"}
StatusMaps ==
    UNION {[names -> StatusValues] :
             names \in {S \in SUBSET StatusKeys : Cardinality(S) <= MaxKeys}}

StatusInit ==
    /\ MainInit("status")
    /\ AlertIdle
    /\ ModeIdle
    /\ CfgIdle
    /\ AlignIdle
    /\ CpuIdle
    /\ GpuIdle
    /\ status_map \in StatusMaps
    /\ channel_statuses = <<>>

\* DeviceSupport::get_channel_statuses (device_support.rs:152-158)
GetChannelStatuses ==
    /\ channel_statuses = <<>>
    /\ \E names \in Orders(DOMAIN status_map) :
          \E fans \in Orders(DOMAIN FansMap(<<>>, status_map, names)) :
             channel_statuses' =
                <<AddSingleStatus(status_map, "fan")
                     \o AddSingleStatus(status_map, "pump")
                     \o AddMultipleFansStatus(status_map, names, fans)>>
    /\ UNCHANGED <<status_map, baseVars, cfgVars, alignVars, cpuVars, gpuVars,
                   alertAll, modeAll>>

StatusNext == GetChannelStatuses

SpecStatus == StatusInit /\ [][StatusNext]_vars

\* the keys of the status map that give the speed and the duty of fan N
SpeedKeys(n) ==
    {name \in DOMAIN status_map :
        /\ Len(name) = 3
        /\ \/ name[1] = "fan" /\ name[3] = "speed" /\ IsNumber(name[2])
                 /\ U32Of[name[2]] = n
           \/ name[1] = "fan" /\ name[2] = "speed" /\ IsNumber(name[3])
                 /\ U32Of[name[3]] = n}
DutyKeys(n) ==
    {name \in DOMAIN status_map :
        /\ Len(name) = 3
        /\ name[1] = "fan" /\ name[3] = "duty" /\ IsNumber(name[2])
        /\ U32Of[name[2]] = n}
ChannelsNamed(name) ==
    {i \in DOMAIN channel_statuses[1] : channel_statuses[1][i].name = name}

\* C32: get_channel_statuses yields exactly one channel "fanN" for every
\* fan number N that a key "fan N speed", "fan speed N" or "fan N duty"
\* names, and none for any other number; its rpm is the value of a speed
\* key of N and its duty the value of a duty key of N, each None when
\* there is no such key, so the keys of different fans never overwrite
\* each other.
THM_C32 ==
    channel_statuses # <<>> =>
       \A n \in 1..(MaxFans + 1) :
          IF SpeedKeys(n) \cup DutyKeys(n) = {}
          THEN ChannelsNamed(FanName(n)) = {}
          ELSE /\ Cardinality(ChannelsNamed(FanName(n))) = 1
               /\ \A i \in ChannelsNamed(FanName(n)) :
                     LET channel == channel_statuses[1][i] IN
                     /\ IF SpeedKeys(n) = {} THEN channel.rpm = <<>>
                        ELSE \E name \in SpeedKeys(n) :
                                channel.rpm = parse_u32(status_map[name])
                     /\ IF DutyKeys(n) = {} THEN channel.duty = <<>>
                        ELSE \E name \in DutyKeys(n) :
                                channel.duty = parse_float(status_map[name])

\* the call has returned the channels of two fans, one with its speed only
\* and one with its duty only
WIT_C32 ==
    /\ channel_statuses # <<>>
    /\ DOMAIN status_map =
          {<<"fan", "speed", "1">>, <<"fan", "2", "duty">>,
           <<"temperature", "1">>}
    /\ status_map[<<"fan", "speed", "1">>] = "33"
    /\ status_map[<<"fan", "2", "duty">>] = "33.3"
    /\ \E i \in ChannelsNamed("fan1") :
          channel_statuses[1][i].rpm = <<33>>
    /\ \E i \in ChannelsNamed("fan2") :
          channel_statuses[1][i].duty = <<333>>

====
